---- MODULE Spec2Model ----
(***************************************************************************)
(* A model of the Scorched Earth MK4 simulation core (src/semk4.py and its *)
(* helpers): the match/turn orchestrator (class Game), the players and     *)
(* their trace histories, the trace sampler (shell_tracing.Tracer) and the *)
(* destructible terrain (class Terrain with collisions.Circle).            *)
(*                                                                         *)
(* Python's None is modelled by the empty set: an optional reference is a  *)
(* set holding at most one object.  List indices are 0-based as in the     *)
(* source; TLA+ sequences are 1-based, so players[i + 1] is players[i].    *)
(***************************************************************************)
EXTENDS Integers, Sequences, FiniteSets, TLC

(***************************************************************************)
(* Bounds of the model.                                                    *)
(***************************************************************************)
\* players taking part in a match (Menu.num_players); a match has 2..MaxPlayers
MaxPlayers == 3
\* shells fired in one match
MaxShots == 2
\* samples the tracer may take of one shell
MaxSamples == 1

(***************************************************************************)
(* Program constants.                                                      *)
(***************************************************************************)
MAX_TRACES == 10
MAX_WIND == 10
INIT_ANGLE == 90
INIT_POWER == 50

\* values the menu's wind item and the power and angle inputs are drawn from
MaxWinds == {0, MAX_WIND}
Powers == {INIT_POWER}
Angles == {INIT_ANGLE, 45}
\* values of random(), in hundredths
Rands == {0, 99}

\* player_list[:n]: the players are numbered in the order of player_list
PlayerIds == 1 .. MaxPlayers

The(S) == CHOOSE x \in S : TRUE

VARIABLES
    screen,             \* ScreenManager.current: "menu", "game" or "victory"
    players,            \* Game.players: the roster, a list of player ids
    c_player_idx,       \* Game._c_player_idx
    init_player_count,  \* Game.init_player_count
    kills,              \* Player.kills of every player of player_list
    shots,              \* Player.shots
    traces,             \* Player.traces: deque([], MAX_TRACES) of Trace
    tank,               \* Player.tank is not None (its widget is on the map)
    shell,              \* Game.shell: {} or {the Shell}
    tracer,             \* Game.tracer: {} or {the Tracer}
    wind,               \* Game.wind: {} or {the wind, in two-hundredths}
    max_wind,           \* Game.max_wind
    update_event,       \* Game.update_event is not None
    clock_update,       \* Clock holds the scheduled Game.update interval
    clock_sample,       \* ids of the Tracers whose sample interval Clock holds
    disabled,           \* power_in, angle_in and fire_button are disabled
    trace_display,      \* the canvas of Map.trace_display: the traces drawn
    map_shells,         \* ids of the Shell widgets that are children of the map
    explosions,         \* number of Terrain.explode calls of the match
    fired,              \* number of Shells created in the match: the next
                        \* Shell (and its Tracer and Trace) is number fired + 1
    victory,            \* Victory screen: {} or {the report _victory stored}
    check,              \* the last Game._check_collisions call: state before
                        \* and after it, what the shell overlapped and what
                        \* the call returned
    solid_parts,        \* Terrain.solid_parts: per x, the list of transitions
    blast,              \* the last Terrain.explode call: {} or {its circle}
    raised,             \* the exception Terrain.explode raised, "" for none
    probe               \* the last call of a function that changes nothing:
                        \* {} or {its arguments and what it returned}

vars == << screen, players, c_player_idx, init_player_count, kills, shots,
           traces, tank, shell, tracer, wind, max_wind, update_event,
           clock_update, clock_sample, disabled, trace_display, map_shells,
           explosions, fired, victory, check, solid_parts, blast, raised,
           probe >>

\* The state of the Game screen, its players and its collaborators as one
\* record, on which the handlers below are written as functions.
G == [ screen |-> screen, players |-> players, c_player_idx |-> c_player_idx,
       init_player_count |-> init_player_count, kills |-> kills,
       shots |-> shots, traces |-> traces, tank |-> tank, shell |-> shell,
       tracer |-> tracer, wind |-> wind, max_wind |-> max_wind,
       update_event |-> update_event, clock_update |-> clock_update,
       clock_sample |-> clock_sample, disabled |-> disabled,
       trace_display |-> trace_display, map_shells |-> map_shells,
       explosions |-> explosions, fired |-> fired, victory |-> victory,
       check |-> check ]

Becomes(g) ==
    /\ screen' = g.screen
    /\ players' = g.players
    /\ c_player_idx' = g.c_player_idx
    /\ init_player_count' = g.init_player_count
    /\ kills' = g.kills
    /\ shots' = g.shots
    /\ traces' = g.traces
    /\ tank' = g.tank
    /\ shell' = g.shell
    /\ tracer' = g.tracer
    /\ wind' = g.wind
    /\ max_wind' = g.max_wind
    /\ update_event' = g.update_event
    /\ clock_update' = g.clock_update
    /\ clock_sample' = g.clock_sample
    /\ disabled' = g.disabled
    /\ trace_display' = g.trace_display
    /\ map_shells' = g.map_shells
    /\ explosions' = g.explosions
    /\ fired' = g.fired
    /\ victory' = g.victory
    /\ check' = g.check
    \* the match holds the terrain as the count of its explosions; the columns
    \* of Terrain are modelled in the Terrain section
    /\ UNCHANGED << solid_parts, blast, raised, probe >>

(***************************************************************************)
(* Player (semk4.py)                                                       *)
(***************************************************************************)
\* a faulty add_trace: a plain list in place of the bounded deque
add_trace_Unbounded(deque, trace) == Append(deque, trace)

\* Player.add_trace: deque.append on a deque of maximal length MAX_TRACES
add_trace(deque, trace) ==
    IF Len(deque) >= MAX_TRACES
    THEN Append(Tail(deque), trace)
    ELSE Append(deque, trace)

\* a faulty Player.reset: the kills are kept
PlayerReset_KeepsKills(g, p) ==
    [g EXCEPT !.traces[p] = << >>, !.tank[p] = FALSE, !.shots[p] = 0]

\* Player.reset
PlayerReset(g, p) ==
    [g EXCEPT !.traces[p] = << >>, !.tank[p] = FALSE,
              !.kills[p] = 0, !.shots[p] = 0]

(***************************************************************************)
(* Tracer and TraceDisplay (shell_tracing.py)                              *)
(***************************************************************************)
\* Tracer.__init__: Clock.schedule_interval(self.sample, TIME_STEP)
TracerStart(scheduled, id) == scheduled \cup {id}

\* a faulty Tracer.end: the event is not cancelled
TracerEnd_NoCancel(scheduled, id) == scheduled

\* Tracer.end: self._event.cancel()
TracerEnd(scheduled, id) == scheduled \ {id}

\* TraceDisplay.draw_trace: one Point instruction added to the canvas
draw_trace(canvas, points, color, id) ==
    Append(canvas, [color |-> color, points |-> points, id |-> id])

(***************************************************************************)
(* Game (semk4.py)                                                         *)
(***************************************************************************)
\* Game._get_c_player
c_player(g) == g.players[g.c_player_idx + 1]

\* list.index
IndexOf(seq, p) == (CHOOSE i \in 1 .. Len(seq) : seq[i] = p) - 1

\* del list[idx]
DelAt(seq, idx) ==
    [j \in 1 .. (Len(seq) - 1) |-> IF j <= idx THEN seq[j] ELSE seq[j + 1]]

\* a faulty _remove_player: the current index is left as it is
RemovePlayer_KeepsIdx(g, p) ==
    PlayerReset([g EXCEPT !.players = DelAt(@, IndexOf(g.players, p))], p)

\* Game._remove_player
RemovePlayer(g, p) ==
    LET idx == IndexOf(g.players, p)
        c   == IF idx <= g.c_player_idx THEN g.c_player_idx - 1
                                        ELSE g.c_player_idx
    IN  PlayerReset([g EXCEPT !.c_player_idx = c,
                              !.players = DelAt(@, idx)], p)

\* a faulty _generate_wind: random() * max_wind
GenerateWind_NotCentred(r, maxWind) == 2 * r * maxWind

\* Game._generate_wind: (random() - 0.5) * max_wind, with random() = r/100
\* and the result in two-hundredths
GenerateWind(r, maxWind) == (2 * r - 100) * maxWind

\* a faulty _switch_player: a player is skipped
NextIdx_Skips(idx, n) == (idx + 2) % n

\* the index Game._switch_player moves to
NextIdx(idx, n) == (idx + 1) % n

\* a faulty _disable_input: the inputs stay enabled
DisableInput_Not == FALSE

\* Game._disable_input and Game._enable_input: the value of the three
\* `disabled` properties
DisableInput == TRUE
\* a faulty _enable_input: the inputs stay disabled
EnableInput_Not == TRUE

EnableInput == FALSE

\* Game._switch_player
SwitchPlayer(g, r) ==
    LET idx  == NextIdx(g.c_player_idx, Len(g.players))
        p    == g.players[idx + 1]
        hist == g.traces[p]
        last == hist[Len(hist)]
    IN  [g EXCEPT !.c_player_idx = idx,
                  !.wind = {GenerateWind(r, g.max_wind)},
                  !.trace_display =
                      IF Len(hist) > 0
                      THEN draw_trace(<< >>, last.points, "previous", last.id)
                      ELSE << >>,
                  !.disabled = EnableInput]

\* a faulty Game.reset: max_wind stays as the menu set it
Reset_KeepsMaxWind(g) ==
    [g EXCEPT !.tracer = {}, !.shell = {}, !.wind = {},
              !.update_event = FALSE, !.init_player_count = 0,
              !.players = << >>, !.c_player_idx = 0,
              !.disabled = EnableInput]

\* Game.reset
Reset(g) ==
    [g EXCEPT !.tracer = {}, !.shell = {}, !.wind = {},
              !.update_event = FALSE, !.init_player_count = 0,
              !.players = << >>, !.c_player_idx = 0,
              !.max_wind = MAX_WIND, !.disabled = EnableInput]

\* for player in self.players.copy(): self._remove_player(player)
RECURSIVE RemoveAll(_, _)
RemoveAll(g, copy) ==
    IF copy = << >> THEN g
    ELSE RemoveAll(RemovePlayer(g, Head(copy)), Tail(copy))

\* Game._end
End(g) ==
    LET g1 == [g EXCEPT !.clock_update = FALSE]
        g2 == IF g1.tracer # {}
              THEN [g1 EXCEPT !.clock_sample = TracerEnd(@, The(g1.tracer).id)]
              ELSE g1
        g3 == IF g2.shell # {}
              THEN [g2 EXCEPT !.map_shells = @ \ {The(g2.shell).id}]
              ELSE g2
        g4 == RemoveAll(g3, g3.players)
    IN  Reset([g4 EXCEPT !.trace_display = << >>])

\* a faulty _victory: the kills and shots are read after _end has reset them
VictoryReport_AfterEnd(g, player_count, player) ==
    [player_count |-> player_count, player |-> player,
     kills |-> End(g).kills[player], shots |-> End(g).shots[player]]

\* what Game._victory stores in the Victory screen before it ends the level
VictoryReport(g, player_count, player) ==
    [player_count |-> player_count, player |-> player,
     kills |-> g.kills[player], shots |-> g.shots[player]]

\* Victory._get_score of a report: kills / shots as the fraction n / d, or 0
\* if no shot was fired
get_score(report) ==
    IF report.shots # 0 THEN [n |-> report.kills, d |-> report.shots]
    ELSE [n |-> 0, d |-> 1]

\* Game._victory
Victory(g, player_count, player) ==
    [End([g EXCEPT !.victory = {VictoryReport(g, player_count, player)}])
        EXCEPT !.screen = "victory"]

\* a faulty _collide_players: the last colliding player of the roster
CollidePlayers_Last(g, hits) ==
    LET idxs == {i \in 1 .. Len(g.players) : g.players[i] \in hits}
    IN  IF idxs = {} THEN {}
        ELSE {g.players[CHOOSE i \in idxs : \A j \in idxs : i >= j]}

\* Game._collide_players: the first player of the roster whose tank the shell
\* overlaps; hits is the set of players for which Player.collide_with is true
CollidePlayers(g, hits) ==
    LET idxs == {i \in 1 .. Len(g.players) : g.players[i] \in hits}
    IN  IF idxs = {} THEN {}
        ELSE {g.players[CHOOSE i \in idxs : \A j \in idxs : i <= j]}

\* a faulty terrain_collision: a shell under the map is in flight until it
\* overlaps terrain
TerrainCollision_NoFloor(g, below, terr) ==
    IF ~terr THEN [g |-> g, hit |-> FALSE]
    ELSE [g |-> [g EXCEPT !.explosions = @ + 1], hit |-> TRUE]

\* Map.terrain_collision: below is min_y < 0 of the shell's bounding box,
\* terr is Terrain.collide_with(rect)
TerrainCollision(g, below, terr) ==
    IF below THEN [g |-> g, hit |-> TRUE]
    ELSE IF ~terr THEN [g |-> g, hit |-> FALSE]
    ELSE [g |-> [g EXCEPT !.explosions = @ + 1], hit |-> TRUE]

\* the roster and the players as Game._check_collisions finds and leaves them
Roster(g) ==
    [players |-> g.players, c_player_idx |-> g.c_player_idx,
     init_player_count |-> g.init_player_count,
     kills |-> g.kills, shots |-> g.shots, traces |-> g.traces,
     tank |-> g.tank, explosions |-> g.explosions]

\* Game._check_collisions: the state after it, with `check` recording the call
CheckCollisions(g, hits, below, terr) ==
    LET hit == CollidePlayers(g, hits)
        g1  == IF hit # {}
               THEN RemovePlayer(
                        [g EXCEPT !.kills[c_player(g)] = @ + 1], The(hit))
               ELSE TerrainCollision(g, below, terr).g
        col == hit # {} \/ TerrainCollision(g, below, terr).hit
    IN  [g1 EXCEPT !.check =
            [collided |-> col, player |-> hit, firer |-> {c_player(g)},
             hits |-> hits, below |-> below, terr |-> terr,
             before |-> Roster(g), after |-> Roster(g1)]]

\* a faulty _shoot: the shot is not counted
Shoot_NoCount(g, player, power, angle) ==
    LET id == g.fired + 1
    IN  [g EXCEPT !.fired = id,
                  !.shell = {[id |-> id, player |-> player,
                              init_power |-> power, init_angle |-> angle,
                              wind |-> The(g.wind)]},
                  !.map_shells = @ \cup {id},
                  !.tracer = {[id |-> id, trace_points |-> << >>]},
                  !.clock_sample = TracerStart(@, id)]

\* Game._shoot
Shoot(g, player, power, angle) ==
    LET id == g.fired + 1
    IN  [g EXCEPT !.shots[player] = @ + 1,
                  !.fired = id,
                  !.shell = {[id |-> id, player |-> player,
                              init_power |-> power, init_angle |-> angle,
                              wind |-> The(g.wind)]},
                  !.map_shells = @ \cup {id},
                  !.tracer = {[id |-> id, trace_points |-> << >>]},
                  !.clock_sample = TracerStart(@, id)]

\* Game._on_fire
OnFire(g, power, angle) ==
    Shoot([g EXCEPT !.disabled = DisableInput], c_player(g), power, angle)

\* a faulty Game.update: the trace is recorded whoever was hit
UpdateShell_AlwaysTraces(g, hits, below, terr, r) ==
    LET sh == The(g.shell)
        g1 == CheckCollisions(g, hits, below, terr)
        tr == The(g1.tracer)
        g2 == [g1 EXCEPT !.clock_sample = TracerEnd(@, tr.id)]
        g3 == [g2 EXCEPT !.traces[sh.player] =
                  add_trace(@, [power |-> sh.init_power,
                                angle |-> sh.init_angle, wind |-> sh.wind,
                                points |-> tr.trace_points, id |-> tr.id])]
        g4 == [g3 EXCEPT !.map_shells = @ \ {sh.id},
                         !.tracer = {}, !.shell = {}]
    IN  IF ~g1.check.collided THEN g1
        ELSE IF Len(g1.players) = 1
        THEN Victory(g1, g1.init_player_count, g1.players[1])
        ELSE SwitchPlayer(g4, r)

\* Game.update with a shell in flight.  Shell.update moves the shell; the
\* match does not hold its position but is told, tick by tick, what the moved
\* shell overlaps (hits, below, terr).
UpdateShell(g, hits, below, terr, r) ==
    LET sh == The(g.shell)
        g1 == CheckCollisions(g, hits, below, terr)
        tr == The(g1.tracer)
        g2 == [g1 EXCEPT !.clock_sample = TracerEnd(@, tr.id)]
        g3 == IF g1.check.player # {sh.player}
              THEN [g2 EXCEPT !.traces[sh.player] =
                        add_trace(@, [power |-> sh.init_power,
                                      angle |-> sh.init_angle,
                                      wind |-> sh.wind,
                                      points |-> tr.trace_points,
                                      id |-> tr.id])]
              ELSE g2
        g4 == [g3 EXCEPT !.map_shells = @ \ {sh.id},
                         !.tracer = {}, !.shell = {}]
    IN  IF ~g1.check.collided THEN g1
        ELSE IF Len(g1.players) = 1
        THEN Victory(g1, g1.init_player_count, g1.players[1])
        ELSE SwitchPlayer(g4, r)

\* Menu.start_game followed by Game.on_pre_enter: n players, the menu's wind
\* value, the random starting index and the first wind
StartGame(g, n, maxWind, start, r) ==
    LET g1 == [g EXCEPT !.players = [i \in 1 .. n |-> i],
                        !.max_wind = maxWind,
                        !.screen = "game"]
        g2 == [g1 EXCEPT !.init_player_count = Len(g1.players),
                         !.tank = [p \in PlayerIds |-> p <= n],
                         !.c_player_idx = start]
    IN  [SwitchPlayer(g2, r) EXCEPT !.update_event = TRUE,
                                    !.clock_update = TRUE]

\* Tracer.sample: a point is drawn and appended to trace_points
TracerSample(g, id, pt) ==
    IF g.tracer # {} /\ The(g.tracer).id = id
    THEN [g EXCEPT !.tracer = {[The(g.tracer) EXCEPT
                                   !.trace_points = Append(@, pt)]},
                   !.trace_display = draw_trace(@, << pt >>, "current", id)]
    ELSE \* a Tracer the Game no longer holds: its list is the one the Trace
         \* made from it holds
         [g EXCEPT !.traces =
                       [p \in PlayerIds |-> [i \in 1 .. Len(@[p]) |->
                           IF @[p][i].id = id
                           THEN [@[p][i] EXCEPT !.points = Append(@, pt)]
                           ELSE @[p][i]]],
                   !.trace_display = draw_trace(@, << pt >>, "current", id)]

(***************************************************************************)
(* The match as a state machine                                            *)
(***************************************************************************)
NoRoster ==
    [players |-> << >>, c_player_idx |-> 0, init_player_count |-> 0,
     kills |-> [p \in PlayerIds |-> 0], shots |-> [p \in PlayerIds |-> 0],
     traces |-> [p \in PlayerIds |-> << >>],
     tank |-> [p \in PlayerIds |-> FALSE], explosions |-> 0]

NoCheck ==
    [collided |-> FALSE, player |-> {}, firer |-> {},
     hits |-> {}, below |-> FALSE, terr |-> FALSE,
     before |-> NoRoster, after |-> NoRoster]

\* Player.__init__ for player_list, Game.__init__, and the menu shown first
Init ==
    /\ screen = "menu"
    /\ players = << >>
    /\ c_player_idx = 0
    /\ init_player_count = 0
    /\ kills = [p \in PlayerIds |-> 0]
    /\ shots = [p \in PlayerIds |-> 0]
    /\ traces = [p \in PlayerIds |-> << >>]
    /\ tank = [p \in PlayerIds |-> FALSE]
    /\ shell = {}
    /\ tracer = {}
    /\ wind = {}
    /\ max_wind = MAX_WIND
    /\ update_event = FALSE
    /\ clock_update = FALSE
    /\ clock_sample = {}
    /\ disabled = FALSE
    /\ trace_display = << >>
    /\ map_shells = {}
    /\ explosions = 0
    /\ fired = 0
    /\ victory = {}
    /\ check = NoCheck
    /\ solid_parts = << >>
    /\ blast = {}
    /\ raised = ""
    /\ probe = {}

\* the Start button of the menu: Menu.start_game and Game.on_pre_enter, with
\* the number of players, the wind value and the random numbers drawn from
\* the given sets
Start(counts, maxWinds, rands) ==
    /\ screen = "menu"
    /\ \E n \in counts, mw \in maxWinds, r \in rands :
         \E start \in 0 .. (n - 1) :
            \E g \in {StartGame([G EXCEPT !.explosions = 0, !.fired = 0,
                                            !.check = NoCheck],
                                  n, mw, start, r)} : Becomes(g)

\* the FIRE button, which dispatches on_press only while it is enabled:
\* Game._on_fire
Fire(maxShots, powers, angles) ==
    /\ screen = "game"
    /\ ~disabled
    /\ fired < maxShots
    /\ \E power \in powers, angle \in angles :
            \E g \in {OnFire(G, power, angle)} : Becomes(g)

\* the points a Tracer has sampled so far
SampledBy(id) ==
    IF tracer # {} /\ The(tracer).id = id THEN The(tracer).trace_points
    ELSE LET made == {t \in UNION {{traces[p][i] : i \in 1 .. Len(traces[p])} :
                                       p \in PlayerIds} : t.id = id}
         IN  IF made = {} THEN << >> ELSE (The(made)).points

\* a tick of the sample interval of a Tracer: Tracer.sample.  The position of
\* the shell is not held; the n-th sample of a shell is the point n.
Sample ==
    \E id \in clock_sample :
        /\ Len(SampledBy(id)) < MaxSamples
        /\ \E g \in {TracerSample(G, id, Len(SampledBy(id)) + 1)} : Becomes(g)

\* a tick of the update interval: Game.update
Update(rands) ==
    /\ clock_update
    /\ IF shell = {} THEN UNCHANGED vars
       ELSE \E hits \in SUBSET {players[i] : i \in 1 .. Len(players)},
               below \in BOOLEAN, terr \in BOOLEAN, r \in rands :
              \E g \in {UpdateShell(G, hits, below, terr, r)} : Becomes(g)

\* the exit button of the game screen: Game.exit_to_menu
ExitToMenu ==
    /\ screen = "game"
    /\ \E g \in {[End(G) EXCEPT !.screen = "menu"]} : Becomes(g)

\* the Victory screen's way back: Victory._switch_to_main_menu.  The source
\* leaves player_count, player, kills and shots set until the next _victory
\* overwrites them; nothing reads them once the screen is left, and the model
\* drops them here.
VictoryToMenu ==
    /\ screen = "victory"
    /\ screen' = "menu"
    /\ victory' = {}
    /\ UNCHANGED << players, c_player_idx, init_player_count, kills, shots,
                    traces, tank, shell, tracer, wind, max_wind, update_event,
                    clock_update, clock_sample, disabled, trace_display,
                    map_shells, explosions, fired, check, solid_parts, blast,
                    raised, probe >>

StartMatch == Start(2 .. MaxPlayers, MaxWinds, Rands)
FireShell == Fire(MaxShots, Powers, Angles)
UpdateTick == Update(Rands)

Next ==
    \/ StartMatch
    \/ FireShell
    \/ Sample
    \/ UpdateTick
    \/ ExitToMenu
    \/ VictoryToMenu

\* Matches of up to MaxPlayers players and MaxShots shells.
Spec == Init /\ [][Next]_vars

(***************************************************************************)
(* Long matches: two players, one wind, no sampling, up to MaxTurns shells *)
(* in a match, so that a trace history fills up.                           *)
(***************************************************************************)
MaxTurns == 22

StartDuel == Start({2}, {MAX_WIND}, {0})
FireTurn == Fire(MaxTurns, {INIT_POWER}, {INIT_ANGLE})
UpdateDuel == Update({0})

NextTraces ==
    \/ StartDuel
    \/ FireTurn
    \/ UpdateDuel
    \/ ExitToMenu
    \/ VictoryToMenu

SpecTraces == Init /\ [][NextTraces]_vars

(***************************************************************************)
(* Terrain (semk4.py) and collisions.Circle                                *)
(*                                                                         *)
(* A y coordinate is the real number a + s * sqrt(d), held exactly as the  *)
(* record [a, s, d] with s in {-1, 0, 1}; an integer n is [n, 0, 0] and    *)
(* the square root of a perfect square is its integer root.  Circles have  *)
(* integer centres and radii, so math.floor and math.ceil of the bounding  *)
(* box leave its integer values as they are.                               *)
(*                                                                         *)
(* The source computes in floats.  On integers of this size its sums,      *)
(* products and comparisons are exact.  Where a y coordinate is irrational *)
(* the float holds a rounded value, and a comparison that is an equality   *)
(* in exact arithmetic can come out either way: `ties` says how such       *)
(* comparisons come out for one segment, and Terrain.explode is modelled   *)
(* by the set of the results it can have.                                  *)
(***************************************************************************)
\* len(solid_parts): the width of the map
MapWidth == 3
\* Terrain.explode calls on one generated terrain
MaxExplosions == 2

\* terrain tops generate_terrain draws (get_terrain_height returns >= 1)
Heights == {60, 100}
\* the circles handed to Terrain.explode
Circles ==
    {[x |-> 1, y |-> 50, r |-> 10], [x |-> 1, y |-> 50, r |-> 20],
     [x |-> 1, y |-> 5, r |-> 20], [x |-> 1, y |-> 100, r |-> 20],
     [x |-> 1, y |-> 50, r |-> 60], [x |-> 12, y |-> 50, r |-> 10],
     [x |-> -9, y |-> 30, r |-> 10], [x |-> -15, y |-> 50, r |-> 10],
     [x |-> 20, y |-> 50, r |-> 10]}

\* how rounding settles the ties of one segment v1 - v2: v1, v2 - the end,
\* lying on the circle, is found inside it; disc - a discriminant of 0 is
\* found >= 0; t0, t1 - a solution lying on v1 is found >= 0, one lying on
\* v2 is found <= 1
Ties == [v1 : BOOLEAN, v2 : BOOLEAN, disc : BOOLEAN, t0 : BOOLEAN,
         t1 : BOOLEAN]

Num(n) == [a |-> n, s |-> 0, d |-> 0]

Sgn(n) == IF n > 0 THEN 1 ELSE IF n < 0 THEN -1 ELSE 0

\* the sign of p + m * sqrt(d)
SurdSign(p, m, d) ==
    IF m = 0 \/ d = 0 THEN Sgn(p)
    ELSE IF p = 0 \/ Sgn(p) = Sgn(m) THEN Sgn(m)
    ELSE Sgn(p) * Sgn(p * p - m * m * d)

\* the sign of p + u * sqrt(d1) + v * sqrt(d2), for u and v in {-1, 0, 1}
SumSign(p, u, d1, v, d2) ==
    LET sx == Sgn(u * d1 + v * d2)
    IN  IF sx = 0 THEN Sgn(p)
        ELSE IF p = 0 \/ Sgn(p) = sx THEN sx
        ELSE sx * SurdSign(u * u * d1 + v * v * d2 - p * p,
                           2 * u * v, d1 * d2)

\* v < w and v <= w on y coordinates
Less(v, w) == SumSign(w.a - v.a, w.s, w.d, -v.s, v.d) > 0
Leq(v, w) == SumSign(w.a - v.a, w.s, w.d, -v.s, v.d) >= 0

\* v <= w as the floats find it
LeqFloat(v, w, tie) ==
    IF (v.s # 0 \/ w.s # 0) /\ Leq(v, w) /\ Leq(w, v) THEN tie
    ELSE Leq(v, w)

\* c + e * math.sqrt(n), for 0 <= n <= r * r
PlusRoot(c, e, n, r) ==
    IF \E k \in 0 .. r : k * k = n
    THEN Num(c + e * (CHOOSE k \in 0 .. r : k * k = n))
    ELSE [a |-> c, s |-> e, d |-> n]

\* Circle.get_bbox
get_bbox(circle) ==
    [min_x |-> circle.x - circle.r, min_y |-> circle.y - circle.r,
     max_x |-> circle.x + circle.r, max_y |-> circle.y + circle.r]

\* a faulty get_y_at: the two solutions in the other order
get_y_at_Swapped(circle, x) ==
    LET e == circle.r * circle.r - (x - circle.x) * (x - circle.x)
    IN  IF e < 0 THEN [has_sol |-> FALSE, s1 |-> Num(0), s2 |-> Num(0)]
        ELSE [has_sol |-> TRUE,
              s1 |-> PlusRoot(circle.y, -1, e, circle.r),
              s2 |-> PlusRoot(circle.y, 1, e, circle.r)]

\* Circle.get_y_at with Circle.solve_quadratic(1, b, c): the solutions
\* (-b + sqrt(disc)) / 2 and (-b - sqrt(disc)) / 2
get_y_at(circle, x) ==
    LET b == -2 * circle.y
        c == circle.y * circle.y + (x - circle.x) * (x - circle.x)
                - circle.r * circle.r
        disc == b * b - 4 * c
    IN  IF disc < 0 THEN [has_sol |-> FALSE, s1 |-> Num(0), s2 |-> Num(0)]
        ELSE [has_sol |-> TRUE,
              s1 |-> PlusRoot((-b) \div 2, 1, disc \div 4, circle.r),
              s2 |-> PlusRoot((-b) \div 2, -1, disc \div 4, circle.r)]

\* the sign of (x - pos.x)^2 + (y - pos.y)^2 - r^2
OffCircle(circle, x, y) ==
    SurdSign((x - circle.x) * (x - circle.x)
                + (y.a - circle.y) * (y.a - circle.y) + y.s * y.s * y.d
                - circle.r * circle.r,
             2 * y.s * (y.a - circle.y), y.d)

\* a faulty collide_point: pos.distance(point) < r
collide_point_Strict(circle, x, y, tie) == OffCircle(circle, x, y) < 0

\* Circle.collide_point for the point (x, y): pos.distance(point) <= r
collide_point(circle, x, y, tie) ==
    IF y.s # 0 /\ OffCircle(circle, x, y) = 0 THEN tie
    ELSE OffCircle(circle, x, y) <= 0

\* Circle.collide_line_segment for the vertical segment (x, y1) - (x, y2) with
\* neither end in the circle: a = 0 and disc = 0, and solve_quadratic divides
\* by 2 * a
divides_by_zero(circle, x, y1, y2, ties) ==
    /\ ~collide_point(circle, x, y1, ties.v1)
    /\ ~collide_point(circle, x, y2, ties.v2)
    /\ Leq(y1, y2) /\ Leq(y2, y1)

\* a faulty collide_line_segment: every segment of a column in the bounding
\* box is taken to collide
collide_line_segment_Always(circle, x, y1, y2, ties) == TRUE

\* Circle.collide_line_segment for the vertical segment (x, y1) - (x, y2),
\* y1 # y2.  With dir = (0, y2 - y1) the discriminant is
\* 4 * dir.y^2 * (r^2 - (x - pos.x)^2) and the solutions are
\* t = (pos.y - y1 +- sqrt(r^2 - (x - pos.x)^2)) / dir.y, so 0 <= t <= 1
\* says that the point pos.y +- sqrt(...) lies between y1 and y2.
collide_line_segment(circle, x, y1, y2, ties) ==
    LET e == circle.r * circle.r - (x - circle.x) * (x - circle.x)
        t1 == PlusRoot(circle.y, 1, e, circle.r)
        t2 == PlusRoot(circle.y, -1, e, circle.r)
        within(p) == IF Leq(y1, y2)
                     THEN LeqFloat(y1, p, ties.t0) /\ LeqFloat(p, y2, ties.t1)
                     ELSE LeqFloat(p, y1, ties.t0) /\ LeqFloat(y2, p, ties.t1)
    IN  \/ collide_point(circle, x, y1, ties.v1)
        \/ collide_point(circle, x, y2, ties.v2)
        \/ /\ e >= 0
           /\ (e = 0 /\ (y1.s # 0 \/ y2.s # 0)) => ties.disc
           /\ within(t1) \/ within(t2)

\* the ways rounding can settle the comparisons made for the segment
\* (x, y1) - (x, y2): all of Ties if one of them is a tie (an end that is
\* irrational lies on the circle, or the circle touches the line of column
\* x), any single one otherwise
TiesOf(circle, x, y1, y2) ==
    IF \/ y1.s # 0 /\ OffCircle(circle, x, y1) = 0
       \/ y2.s # 0 /\ OffCircle(circle, x, y2) = 0
       \/ /\ y1.s # 0 \/ y2.s # 0
          /\ circle.r * circle.r = (x - circle.x) * (x - circle.x)
    THEN Ties
    ELSE {[v1 |-> TRUE, v2 |-> TRUE, disc |-> TRUE, t0 |-> TRUE,
           t1 |-> TRUE]}

\* generate_terrain: one segment from 0 to the top of the terrain per x
generate_terrain(tops) ==
    [x \in 1 .. Len(tops) |-> << Num(0), Num(tops[x]) >>]

\* Terrain.explode, "delete segment": del transitions[i * 2: i * 2 + 2]
delete_segment(transitions, i) ==
    SubSeq(transitions, 1, i * 2)
        \o SubSeq(transitions, i * 2 + 3, Len(transitions))

\* a faulty move_bot: the bottom moved to the lower solution
move_bot_Lower(transitions, i, c_y) ==
    [transitions EXCEPT ![i * 2 + 1] = c_y.s2]

\* Terrain.explode, "move bot above the circle"
move_bot(transitions, i, c_y) ==
    [transitions EXCEPT ![i * 2 + 1] = c_y.s1]

\* Terrain.explode, "move top below the circle"
move_top(transitions, i, c_y) ==
    [transitions EXCEPT ![i * 2 + 2] = c_y.s2]

\* Terrain.explode, "split the existing segment":
\* transitions[i * 2 + 1: i * 2 + 1] = [c_y[2], c_y[1]]
split_segment(transitions, i, c_y) ==
    SubSeq(transitions, 1, i * 2 + 1)
        \o << c_y.s2, c_y.s1 >>
        \o SubSeq(transitions, i * 2 + 2, Len(transitions))

\* Terrain.explode, the body of the loop over the segments for segment i
explode_segment(transitions, i, x, circle, ties) ==
    LET bot == transitions[i * 2 + 1]
        top == transitions[i * 2 + 2]
        bot_col == collide_point(circle, x, bot, ties.v1)
        top_col == collide_point(circle, x, top, ties.v2)
        c_y == get_y_at(circle, x)
    IN  IF divides_by_zero(circle, x, bot, top, ties)
        THEN [transitions |-> transitions, raised |-> "ZeroDivisionError"]
        ELSE [raised |-> "",
              transitions |->
                IF ~collide_line_segment(circle, x, bot, top, ties)
                THEN transitions
                ELSE IF bot_col /\ top_col THEN delete_segment(transitions, i)
                ELSE IF bot_col THEN move_bot(transitions, i, c_y)
                ELSE IF top_col THEN move_top(transitions, i, c_y)
                ELSE split_segment(transitions, i, c_y)]

\* Terrain.explode, the loop over the segments of column x from segment i
\* down to segment 0: the results it can have
RECURSIVE explode_segments(_, _, _, _)
explode_segments(transitions, i, x, circle) ==
    IF i < 0 THEN {[transitions |-> transitions, raised |-> ""]}
    ELSE UNION {IF res.raised # "" THEN {res}
                ELSE explode_segments(res.transitions, i - 1, x, circle) :
                   res \in {explode_segment(transitions, i, x, circle, ties) :
                               ties \in TiesOf(circle, x,
                                               transitions[i * 2 + 1],
                                               transitions[i * 2 + 2])}}

\* Terrain.explode, the body of the loop over x
explode_column(transitions, x, circle) ==
    IF Len(transitions) % 2 # 0
    THEN {[transitions |-> transitions, raised |-> "AssertionError"]}
    ELSE explode_segments(transitions, Len(transitions) \div 2 - 1, x, circle)

\* list[x] of a list of length len: the 0-based position read, counted from
\* the end for a negative x, or -1 where Python raises IndexError
PyIndex(len, x) ==
    IF 0 <= x /\ x < len THEN x
    ELSE IF -len <= x /\ x < 0 THEN len + x
    ELSE -1

\* Terrain.explode, the loop over x in range(x, stop); an exception leaves
\* the columns already changed as they are
RECURSIVE explode_columns(_, _, _, _)
explode_columns(parts, x, stop, circle) ==
    IF x >= stop THEN {[solid_parts |-> parts, raised |-> ""]}
    ELSE LET k == PyIndex(Len(parts), x)
         IN  IF k = -1
             THEN {[solid_parts |-> parts, raised |-> "IndexError"]}
             ELSE UNION {
                   IF col.raised # ""
                   THEN {[solid_parts |->
                             [parts EXCEPT ![k + 1] = col.transitions],
                          raised |-> col.raised]}
                   ELSE explode_columns(
                            [parts EXCEPT ![k + 1] = col.transitions],
                            x + 1, stop, circle) :
                      col \in explode_column(parts[k + 1], x, circle)}

Max(m, n) == IF m >= n THEN m ELSE n
Min(m, n) == IF m <= n THEN m ELSE n

\* a faulty range: the bounding box is not cut to the columns of the map
explode_range_Unclamped(len, circle) ==
    [start |-> get_bbox(circle).min_x, stop |-> get_bbox(circle).max_x + 1]

\* Terrain.explode: range(max(math.floor(min_x), 0),
\*                        min(math.ceil(max_x) + 1, len(self.solid_parts)))
explode_range(len, circle) ==
    [start |-> Max(get_bbox(circle).min_x, 0),
     stop |-> Min(get_bbox(circle).max_x + 1, len)]

\* Terrain.explode: the results it can have
explode(parts, circle) ==
    explode_columns(parts, explode_range(Len(parts), circle).start,
                    explode_range(Len(parts), circle).stop, circle)

\* Game.on_pre_enter: generate_terrain gives the map a new terrain
GenerateTerrain ==
    /\ raised = ""
    /\ \E tops \in [1 .. MapWidth -> Heights] :
            solid_parts' = generate_terrain(tops)
    /\ explosions' = 0
    /\ blast' = {}
    /\ probe' = {}
    /\ UNCHANGED << screen, players, c_player_idx, init_player_count, kills,
                    shots, traces, tank, shell, tracer, wind, max_wind,
                    update_event, clock_update, clock_sample, disabled,
                    trace_display, map_shells, fired, victory, check, raised >>

\* Terrain.explode(circle) on the terrain of the map, for up to maxExplosions
\* calls on one terrain
Explode(maxExplosions) ==
    /\ solid_parts # << >>
    /\ raised = ""
    /\ explosions < maxExplosions
    /\ \E circle \in Circles :
         \E res \in explode(solid_parts, circle) :
            /\ solid_parts' = res.solid_parts
            /\ raised' = res.raised
            /\ blast' = {circle}
    /\ explosions' = explosions + 1
    /\ probe' = {}
    /\ UNCHANGED << screen, players, c_player_idx, init_player_count, kills,
                    shots, traces, tank, shell, tracer, wind, max_wind,
                    update_event, clock_update, clock_sample, disabled,
                    trace_display, map_shells, fired, victory, check >>

ExplodeTerrain == Explode(MaxExplosions)

NextTerrain ==
    \/ GenerateTerrain
    \/ ExplodeTerrain

\* Terrains of MapWidth columns and up to MaxExplosions explosions each.
SpecTerrain == Init /\ [][NextTerrain]_vars

(***************************************************************************)
(* collisions.Rectangle and Terrain.collide_with                           *)
(*                                                                         *)
(* The coordinates of a rectangle are held in halves (a centre at x = 1.5  *)
(* is 3), so that math.floor and math.ceil of its bounding box have work   *)
(* to do; a rotation is a multiple of 90 degrees.  A point is a pair       *)
(* << x, y >> of an integer x and a y coordinate, both in halves.          *)
(*                                                                         *)
(* kivy's Vector.rotate computes with the cosine and the sine of the       *)
(* angle, which are exact for 0 degrees only; a rotated corner and the     *)
(* intersection point of two segments one of which has an irrational end   *)
(* are off by a rounding error.  `err` holds the sign of such an error for *)
(* each coordinate, and a comparison that is an equality in exact          *)
(* arithmetic is settled by it.                                            *)
(***************************************************************************)
\* the rectangles Terrain.collide_with is asked about: Shell.get_rectangle of
\* a shell 2 wide and 1 high, flying level, at places inside, across the
\* edges of and outside the map
Rects ==
    {[center |-> << cx, cy >>, size |-> << 4, 2 >>, bl_offset |-> << -2, -1 >>,
      rotation |-> 0] :
        cx \in {-40, -1, 3, 2 * MapWidth - 1, 2 * MapWidth + 20},
        cy \in {100, 120, 250}}

Errs == [x : {-1, 0, 1}, y : {-1, 0, 1}]
NoErr == [x |-> 0, y |-> 0]

\* math.floor and math.ceil of a value held in halves
Floor2(n) == n \div 2
Ceil2(n) == -((-n) \div 2)

\* a y coordinate in halves
Twice(v) == [a |-> 2 * v.a, s |-> v.s, d |-> 4 * v.d]

\* v - n for a y coordinate v and an integer n
Minus(v, n) == [v EXCEPT !.a = @ - n]

\* Vector.rotate(angle) for a multiple of 90 degrees
Rotate(v, angle) ==
    IF angle % 360 = 0 THEN v
    ELSE IF angle % 360 = 90 THEN << -v[2], v[1] >>
    ELSE IF angle % 360 = 180 THEN << -v[1], -v[2] >>
    ELSE << v[2], -v[1] >>

\* Rectangle.get_aligned_bl, get_aligned_br, get_aligned_tl, get_aligned_tr
get_aligned_bl(rect) == rect.bl_offset
get_aligned_br(rect) ==
    << rect.bl_offset[1] + rect.size[1], rect.bl_offset[2] >>
get_aligned_tl(rect) ==
    << rect.bl_offset[1], rect.bl_offset[2] + rect.size[2] >>
get_aligned_tr(rect) ==
    << rect.bl_offset[1] + rect.size[1], rect.bl_offset[2] + rect.size[2] >>

\* Rectangle.get_local_bl, get_local_br, get_local_tl, get_local_tr
get_local_bl(rect) == Rotate(get_aligned_bl(rect), rect.rotation)
get_local_br(rect) == Rotate(get_aligned_br(rect), rect.rotation)
get_local_tl(rect) == Rotate(get_aligned_tl(rect), rect.rotation)
get_local_tr(rect) == Rotate(get_aligned_tr(rect), rect.rotation)

\* Rectangle.get_bl, get_br, get_tl, get_tr
get_bl(rect) ==
    << get_local_bl(rect)[1] + rect.center[1],
       get_local_bl(rect)[2] + rect.center[2] >>
get_br(rect) ==
    << get_local_br(rect)[1] + rect.center[1],
       get_local_br(rect)[2] + rect.center[2] >>
get_tl(rect) ==
    << get_local_tl(rect)[1] + rect.center[1],
       get_local_tl(rect)[2] + rect.center[2] >>
get_tr(rect) ==
    << get_local_tr(rect)[1] + rect.center[1],
       get_local_tr(rect)[2] + rect.center[2] >>

\* Rectangle.get_vertexes and Rectangle.get_sides
get_vertexes(rect) ==
    << get_bl(rect), get_br(rect), get_tr(rect), get_tl(rect) >>
get_sides(rect) ==
    << << get_bl(rect), get_br(rect) >>, << get_br(rect), get_tr(rect) >>,
       << get_tr(rect), get_tl(rect) >>, << get_tl(rect), get_bl(rect) >> >>

\* Rectangle.get_bbox
rect_get_bbox(rect) ==
    LET xs == {get_vertexes(rect)[i][1] : i \in 1 .. 4}
        ys == {get_vertexes(rect)[i][2] : i \in 1 .. 4}
    IN  [min_x |-> CHOOSE m \in xs : \A n \in xs : m <= n,
         min_y |-> CHOOSE m \in ys : \A n \in ys : m <= n,
         max_x |-> CHOOSE m \in xs : \A n \in xs : m >= n,
         max_y |-> CHOOSE m \in ys : \A n \in ys : m >= n]

\* v <= n and v >= n, for a y coordinate v and an integer n that is off by
\* an error of sign e
LeqErr(v, n, e) == Less(v, Num(n)) \/ (Leq(v, Num(n)) /\ e >= 0)
GeqErr(v, n, e) == Less(Num(n), v) \/ (Leq(Num(n), v) /\ e <= 0)

\* Vector.in_bbox(p, a, b) for p = << a y coordinate, a y coordinate >>; the
\* corner b is off by err
in_bbox(p, a, b, err) ==
    /\ \/ LeqErr(p[1], a[1], 0) /\ GeqErr(p[1], b[1], err.x)
       \/ LeqErr(p[1], b[1], err.x) /\ GeqErr(p[1], a[1], 0)
    /\ \/ LeqErr(p[2], a[2], 0) /\ GeqErr(p[2], b[2], err.y)
       \/ LeqErr(p[2], b[2], err.y) /\ GeqErr(p[2], a[2], 0)

\* Rectangle.collide_point(point): p = point - self.center; the vector that
\* p.rotate(-self.rotation) returns is dropped (Vector.rotate does not change
\* p); p is tested against the box of get_aligned_bl() and get_local_tr()
rect_collide_point(rect, point, err) ==
    LET p == << Minus(Num(point[1]), rect.center[1]),
                Minus(point[2], rect.center[2]) >>
    IN  in_bbox(p, get_aligned_bl(rect), get_local_tr(rect),
                IF rect.rotation % 360 = 0 THEN NoErr ELSE err)

\* Vector.segment_intersection(side[0], side[1], v1, v2) is not None, for a
\* side parallel to an axis and the vertical segment (x, y1) - (x, y2).
\* denom = (x1 - x2) * (y3 - y4) is 0 for a vertical side and for y1 = y2;
\* for a horizontal side at height ys the lines meet in (px, py) = (x, ys),
\* computed with a rounding error if y1 or y2 is irrational.
segment_intersection(side, x, y1, y2, err) ==
    LET x1 == side[1][1]
        x2 == side[2][1]
        ys == side[1][2]
        e  == IF y1.s # 0 \/ y2.s # 0 THEN err ELSE NoErr
        \* lo <= px <= hi and lo <= py <= hi
        x_in(lo, hi) == /\ lo < x \/ (lo = x /\ e.x >= 0)
                        /\ x < hi \/ (x = hi /\ e.x <= 0)
        y_in(lo, hi) == GeqErr(hi, ys, e.y) /\ LeqErr(lo, ys, e.y)
    IN  /\ x1 # x2
        /\ ~(Leq(y1, y2) /\ Leq(y2, y1))
        /\ x_in(x1, x2) \/ x_in(x2, x1)
        /\ y_in(y1, y2) \/ y_in(y2, y1)

\* Rectangle.collide_line_segment(v1, v2) for the vertical segment
\* (x, y1) - (x, y2)
rect_collide_line_segment(rect, x, y1, y2, err) ==
    \/ \E i \in 1 .. 4 :
          segment_intersection(get_sides(rect)[i], x, y1, y2, err)
    \/ /\ rect_collide_point(rect, << x, y1 >>, err)
       /\ rect_collide_point(rect, << x, y2 >>, err)

\* the rounding errors the computations for a segment can have: none if the
\* rectangle is not rotated and both ends of the segment are rational
ErrsOf(rect, y1, y2) ==
    IF rect.rotation % 360 = 0 /\ y1.s = 0 /\ y2.s = 0 THEN {NoErr}
    ELSE Errs

\* Terrain.collide_with: range(max(math.floor(min_x), 0),
\*                             min(math.ceil(max_x), len(self.solid_parts)))
collide_with_range(len, rect) ==
    [start |-> Max(Floor2(rect_get_bbox(rect).min_x), 0),
     stop |-> Min(Ceil2(rect_get_bbox(rect).max_x), len)]

\* Terrain.collide_with, the loop over x in range(x, stop): what it can
\* return or raise
RECURSIVE collide_with_columns(_, _, _, _)
collide_with_columns(parts, rect, x, stop) ==
    IF x >= stop THEN {[collided |-> FALSE, raised |-> ""]}
    ELSE LET k == PyIndex(Len(parts), x)
             transitions == parts[k + 1]
             hits(i) == {rect_collide_line_segment(
                             rect, 2 * x, Twice(transitions[i * 2 + 1]),
                             Twice(transitions[i * 2 + 2]), err) :
                           err \in ErrsOf(rect, transitions[i * 2 + 1],
                                          transitions[i * 2 + 2])}
         IN  IF k = -1 THEN {[collided |-> FALSE, raised |-> "IndexError"]}
             ELSE IF Len(transitions) % 2 # 0
             THEN {[collided |-> FALSE, raised |-> "AssertionError"]}
             ELSE (IF \E i \in 0 .. (Len(transitions) \div 2 - 1) :
                         TRUE \in hits(i)
                   THEN {[collided |-> TRUE, raised |-> ""]} ELSE {})
                  \cup
                  (IF \A i \in 0 .. (Len(transitions) \div 2 - 1) :
                         FALSE \in hits(i)
                   THEN collide_with_columns(parts, rect, x + 1, stop)
                   ELSE {})

\* Terrain.collide_with(rectangle)
collide_with(parts, rect) ==
    collide_with_columns(parts, rect,
                         collide_with_range(Len(parts), rect).start,
                         collide_with_range(Len(parts), rect).stop)

\* Terrain.collide_with(rectangle) on the terrain of the map, once between
\* two changes of the terrain
CollideTerrain ==
    /\ solid_parts # << >>
    /\ raised = ""
    /\ probe = {}
    /\ \E rect \in Rects :
         \E res \in collide_with(solid_parts, rect) :
            /\ probe' = {[op |-> "collide_with", rect |-> rect,
                          collided |-> res.collided]}
            /\ raised' = res.raised
    /\ UNCHANGED << screen, players, c_player_idx, init_player_count, kills,
                    shots, traces, tank, shell, tracer, wind, max_wind,
                    update_event, clock_update, clock_sample, disabled,
                    trace_display, map_shells, explosions, fired, victory,
                    check, solid_parts, blast >>

ExplodeOnce == Explode(1)

NextCollide ==
    \/ GenerateTerrain
    \/ ExplodeOnce
    \/ CollideTerrain

\* Terrains of MapWidth columns after at most one explosion, asked for
\* collisions with rectangles.
SpecCollide == Init /\ [][NextCollide]_vars

\* the call probe records
TheProbe == The(probe)

(***************************************************************************)
(* Rectangle.collide_point and Circle.collide_point on their own           *)
(***************************************************************************)
\* everything but the record of the last call
but_probe == << screen, players, c_player_idx, init_player_count, kills,
                shots, traces, tank, shell, tracer, wind, max_wind,
                update_event, clock_update, clock_sample, disabled,
                trace_display, map_shells, explosions, fired, victory, check,
                solid_parts, blast, raised >>

\* rectangles 4 wide and 2 high (in halves: 8 and 4): tank bodies and shells
\* with the centre in the middle, barrels with the centre in the middle of
\* the left side
TurnedRects ==
    {[center |-> c, size |-> << 8, 4 >>, bl_offset |-> off, rotation |-> rot] :
        c \in {<< 0, 0 >>, << 6, 4 >>},
        off \in {<< -4, -2 >>, << 0, -2 >>},
        rot \in {0, 90, 180, 270}}

\* the points strictly inside the box the rectangle has before it is rotated
InnerPoints(rect) ==
    {<< x, y >> :
        x \in (rect.bl_offset[1] + 1) .. (rect.bl_offset[1] + rect.size[1] - 1),
        y \in (rect.bl_offset[2] + 1) .. (rect.bl_offset[2] + rect.size[2] - 1)}

\* Rectangle.collide_point(point) for a point of the rectangle: the point
\* `local` of the box, rotated about the centre with the rectangle.  One call
\* is followed from the initial state.
RectCollidePoint ==
    /\ probe = {}
    /\ \E rect \in TurnedRects : \E local \in InnerPoints(rect), err \in Errs :
        LET turned == Rotate(local, rect.rotation)
            point == << turned[1] + rect.center[1],
                        Num(turned[2] + rect.center[2]) >>
        IN  probe' = {[op |-> "Rectangle.collide_point", rect |-> rect,
                       local |-> local, point |-> point,
                       collided |-> rect_collide_point(rect, point, err)]}
    /\ UNCHANGED but_probe

\* the circles and the points Circle.collide_point is asked about
PointCircles ==
    {[x |-> c[1], y |-> c[2], r |-> r] :
        c \in {<< 0, 0 >>, << 1, -2 >>}, r \in {0, 5}}
Points == {<< x, y >> : x \in -6 .. 6, y \in -6 .. 6}

\* Circle.collide_point(point)
CircleCollidePoint ==
    /\ probe = {}
    /\ \E circle \in PointCircles, point \in Points :
          probe' = {[op |-> "Circle.collide_point", circle |-> circle,
                     point |-> point,
                     collided |-> collide_point(circle, point[1],
                                                Num(point[2]), TRUE)]}
    /\ UNCHANGED but_probe

NextGeometry ==
    \/ RectCollidePoint
    \/ CircleCollidePoint

\* Calls of the point tests of the geometry kernel.
SpecGeometry == Init /\ [][NextGeometry]_vars

(***************************************************************************)
(* Tank.collide_with (semk4.py) and Rectangle.collide_rectangle            *)
(*                                                                         *)
(* The tank body, the barrel lying level (angle 0) and a shell flying      *)
(* level: three rectangles with sides parallel to the axes and whole       *)
(* coordinates in halves, on which the float arithmetic is exact.          *)
(***************************************************************************)
\* Tank.collide_with, body_rect: the centre of the body, its size and
\* -size / 2, rotation 0
BodyRect ==
    [center |-> << 30, 20 >>, size |-> << 20, 12 >>,
     bl_offset |-> << -10, -6 >>, rotation |-> 0]

\* Tank.collide_with, barrel_rect: the middle of the barrel's left side, its
\* size and (0, -height / 2), rotation barrel.angle = 0
BarrelRect ==
    [center |-> << 30, 24 >>, size |-> << 16, 2 >>,
     bl_offset |-> << 0, -1 >>, rotation |-> 0]

\* Shell.get_rectangle of shells 2 wide and 1 high at places around and
\* inside the tank
ShellRects ==
    {[center |-> << 2 * cx, 2 * cy >>, size |-> << 4, 2 >>,
      bl_offset |-> << -2, -1 >>, rotation |-> 0] :
        cx \in 7 .. 26, cy \in 5 .. 15}

\* Vector.segment_intersection(v1, v2, v3, v4) is not None: the lines meet in
\* one point (px, py) = (nx / denom, ny / denom), which lies in the box of
\* each segment; a segment parallel to an axis does not bound the other
\* coordinate
rect_segment_intersection(a, b) ==
    LET x1 == a[1][1]
        y1 == a[1][2]
        x2 == a[2][1]
        y2 == a[2][2]
        x3 == b[1][1]
        y3 == b[1][2]
        x4 == b[2][1]
        y4 == b[2][2]
        u == x1 * y2 - y1 * x2
        v == x3 * y4 - y3 * x4
        denom == (x1 - x2) * (y3 - y4) - (y1 - y2) * (x3 - x4)
        nx == u * (x3 - x4) - (x1 - x2) * v
        ny == u * (y3 - y4) - (y1 - y2) * v
        \* lo <= n / denom <= hi
        between(lo, n, hi) ==
            IF denom > 0 THEN lo * denom <= n /\ n <= hi * denom
            ELSE lo * denom >= n /\ n >= hi * denom
        c1 == between(x1, nx, x2) \/ between(x2, nx, x1) \/ x1 = x2
        c2 == between(y1, ny, y2) \/ between(y2, ny, y1) \/ y1 = y2
        c3 == between(x3, nx, x4) \/ between(x4, nx, x3) \/ x3 = x4
        c4 == between(y3, ny, y4) \/ between(y4, ny, y3) \/ y3 = y4
    IN  denom # 0 /\ c1 /\ c2 /\ c3 /\ c4

\* Rectangle.collide_rectangle(rect): a side of self meets a side of rect, or
\* all the vertexes of rect are inside self
collide_rectangle(self, rect) ==
    \/ \E i, j \in 1 .. 4 :
          rect_segment_intersection(get_sides(self)[i], get_sides(rect)[j])
    \/ \A k \in 1 .. 4 :
          rect_collide_point(self, << get_vertexes(rect)[k][1],
                                      Num(get_vertexes(rect)[k][2]) >>, NoErr)

\* Tank.collide_with(shell): shell_rect.collide_rectangle(body_rect) or
\* shell_rect.collide_rectangle(barrel_rect)
Tank_collide_with(body_rect, barrel_rect, shell_rect) ==
    \/ collide_rectangle(shell_rect, body_rect)
    \/ collide_rectangle(shell_rect, barrel_rect)

\* Tank.collide_with(shell); one call is followed from the initial state
TankCollideWith ==
    /\ probe = {}
    /\ \E shell_rect \in ShellRects :
          probe' = {[op |-> "Tank.collide_with", shell_rect |-> shell_rect,
                     collided |-> Tank_collide_with(BodyRect, BarrelRect,
                                                    shell_rect)]}
    /\ UNCHANGED but_probe

NextTank ==
    \/ TankCollideWith

\* Calls of Tank.collide_with for one tank and shells around and inside it.
SpecTank == Init /\ [][NextTank]_vars

(***************************************************************************)
(* Shell.update (semk4.py)                                                 *)
(*                                                                         *)
(* Positions and sizes are held in tenths and dt is a tenth of a second;   *)
(* velocities are held in 1/Fine of a unit per second, which makes the     *)
(* drag of a shell of mass SHELL_MASS with the drag coefficient            *)
(* DRAG_COEFFICIENT a whole number whenever the length of the air velocity *)
(* is one.                                                                 *)
(***************************************************************************)
SHELL_MASS == 100
GRAVITY == 200
\* 1 / DRAG_COEFFICIENT
INV_DRAG_COEFFICIENT == 400
\* 1 / dt, and the tenths of a unit
Tenth == 10
Fine == SHELL_MASS * INV_DRAG_COEFFICIENT

\* the map the shell is a child of: 800 wide and 600 high
Parent == [width |-> 800 * Tenth, height |-> 600 * Tenth]

\* the shells Shell.update is called on: 10 long and 5 high, left of, at, in
\* and right of the field, above, in and below it; drag is the drag
\* coefficient as a multiple of DRAG_COEFFICIENT
Shells ==
    {[x |-> x, y |-> y, width |-> 10 * Tenth, height |-> 5 * Tenth,
      velocity_x |-> vx * Fine, velocity_y |-> vy * Fine, wind |-> w,
      drag |-> d] :
        x \in {-20 * Tenth, -1 * Tenth, 4 * Tenth, 100 * Tenth, 789 * Tenth},
        y \in {-3 * Tenth, 300 * Tenth, 594 * Tenth},
        vx \in {-50, 0, 50}, vy \in {-100, 20, 140},
        w \in {-MAX_WIND, 0, MAX_WIND},
        d \in {0, 1}}

\* math.sqrt(n) where it is a whole number
IsSquare(n) == \E k \in 0 .. 300 : k * k = n
Sqrt(n) == CHOOSE k \in 0 .. 300 : k * k = n

\* a faulty clamp: no lower bound
clamp_NoLower(value, min_val, max_val) == Min(value, max_val)

\* clamp: max(min(value, max_val), min_val)
clamp(value, min_val, max_val) == Max(Min(value, max_val), min_val)

\* Shell.update, "move the shell" and "apply gravitational acceleration"
move_shell(sh) ==
    [sh EXCEPT !.x = @ + sh.velocity_x \div Fine,
               !.y = @ + sh.velocity_y \div Fine,
               !.velocity_y = @ - (GRAVITY \div Tenth) * Fine]

\* Shell.update, air_vel: (velocity_x - wind, velocity_y)
air_vel(sh) == << sh.velocity_x \div Fine - sh.wind, sh.velocity_y \div Fine >>

\* Shell.update, the drag: velocity - (drag / mass) with
\* drag = air_vel.normalize() * drag_coef * air_vel.length2(); normalize
\* leaves the zero vector as it is, and a drag_coef of 0 makes the drag the
\* zero vector whatever the length is
apply_drag(sh) ==
    LET air == air_vel(sh)
        length == Sqrt(air[1] * air[1] + air[2] * air[2])
    IN  IF sh.drag = 0 THEN sh
        ELSE [sh EXCEPT !.velocity_x = @ - sh.drag * air[1] * length,
                        !.velocity_y = @ - sh.drag * air[2] * length]

\* the setters of Widget.right and Widget.top: x = right - width,
\* y = top - height
\* Shell.update, "bounce off the walls"
bounce(sh, parent) ==
    LET s1 == IF sh.x < 0 \/ sh.x + sh.width > parent.width
              THEN [sh EXCEPT
                      !.velocity_x = -@,
                      !.x = clamp(clamp(sh.x + sh.width, 0, parent.width)
                                      - sh.width, 0, parent.width)]
              ELSE sh
    IN  IF s1.y + s1.height > parent.height
        THEN [s1 EXCEPT !.velocity_y = -@,
                        !.y = clamp(s1.y + s1.height, 0, parent.height)
                                  - s1.height]
        ELSE s1

\* Shell.update(dt)
Shell_update(sh, parent) == bounce(apply_drag(move_shell(sh)), parent)

\* Shell.update(dt) on a shell whose air velocity has a whole length; one
\* call is followed from the initial state
ShellUpdate ==
    /\ probe = {}
    /\ \E sh \in Shells :
          /\ IsSquare(air_vel(move_shell(sh))[1] * air_vel(move_shell(sh))[1]
                      + air_vel(move_shell(sh))[2] * air_vel(move_shell(sh))[2])
          /\ probe' = {[op |-> "Shell.update", shell |-> sh,
                        after |-> Shell_update(sh, Parent)]}
    /\ UNCHANGED but_probe

NextShell == ShellUpdate

\* Ticks of a shell in flight.
SpecShell == Init /\ [][NextShell]_vars

(***************************************************************************)
(* The flight of a shell: Game.update, tick after tick                     *)
(*                                                                         *)
(* A shell without drag (the menu's drag at 0) over columns with no        *)
(* terrain and away from the tanks: what ends its flight is the floor,     *)
(* min_y < 0 in Map.terrain_collision.  The units are those of             *)
(* Shell.update above: positions in tenths, dt a tenth of a second.        *)
(***************************************************************************)
\* shells that Game._shoot has fired, on their way up: at heights 150 and
\* 469.5 with upward speeds 140, 215 and 400
Launches ==
    {[x |-> x * Tenth, y |-> y, width |-> 10 * Tenth, height |-> 5 * Tenth,
      velocity_x |-> vx * Fine, velocity_y |-> vy * Fine, wind |-> 0,
      drag |-> 0] :
        x \in {100, 700}, y \in {1500, 4695}, vx \in {-50, 0, 50},
        vy \in {140, 215, 400}}

\* Map.terrain_collision, min_y < 0 for the bounding box of
\* Shell.get_rectangle: the rectangle is turned about its centre by the angle
\* of the velocity, so its lowest point lies between height / 2 and half the
\* diagonal under the centre; the values the test can have
min_y_below(sh) ==
    LET centre_y == 2 * sh.y + sh.height
    IN  IF centre_y < sh.height THEN {TRUE}
        ELSE IF centre_y * centre_y
                    < sh.width * sh.width + sh.height * sh.height
        THEN {TRUE, FALSE}
        ELSE {FALSE}

\* Game._on_fire: a shell is in flight
FlightFire ==
    /\ probe = {}
    /\ \E sh \in Launches :
          probe' = {[op |-> "flight", shell |-> sh, flying |-> TRUE]}
    /\ UNCHANGED but_probe

\* Game.update with a shell in flight: Shell.update(dt), then
\* _check_collisions, which ends the flight when the shell is under the map
FlightTick ==
    /\ probe # {}
    /\ TheProbe.op = "flight"
    /\ TheProbe.flying
    /\ LET sh == Shell_update(TheProbe.shell, Parent)
       IN  \E below \in min_y_below(sh) :
              probe' = {[op |-> "flight", shell |-> sh, flying |-> ~below]}
    /\ UNCHANGED but_probe

NextFlight ==
    \/ FlightFire
    \/ FlightTick

\* Flights of a shell; Clock.schedule_interval calls Game.update again and
\* again while the match runs.
SpecFlight == Init /\ [][NextFlight]_vars /\ WF_vars(FlightTick)

(***************************************************************************)
(* Circle.collide_line_segment and Circle.collide_line on any segment      *)
(*                                                                         *)
(* The ends of a segment are points << x, y >> with whole coordinates; a   *)
(* call returns a value or raises, as the field `raised` of its record     *)
(* says.                                                                   *)
(***************************************************************************)
\* the segments v1 - v2 the calls are made with: of length 0, level,
\* upright and slanted
SegmentsFrom(v1) ==
    {<< v1, << v1[1] + d[1], v1[2] + d[2] >> >> :
        d \in {<< 0, 0 >>, << 3, 0 >>, << 0, 4 >>, << -5, 2 >>}}

Dot(v, w) == v[1] * w[1] + v[2] * w[2]

\* Circle.solve_quadratic(a, b, c) followed by 0 <= t1 <= 1 or 0 <= t2 <= 1:
\* t = (-b +- sqrt(disc)) / (2 * a) is a division by 0 for a = 0
solve_quadratic_within(a, b, c) ==
    LET disc == b * b - 4 * a * c
        \* 0 <= (-b + e * sqrt(disc)) / (2 * a) <= 1, for a > 0
        within(e) == /\ SurdSign(-b, e, disc) >= 0
                     /\ SurdSign(-b - 2 * a, e, disc) <= 0
    IN  IF disc < 0 THEN [collided |-> FALSE, raised |-> ""]
        ELSE IF a = 0 THEN [collided |-> FALSE, raised |-> "ZeroDivisionError"]
        ELSE [collided |-> within(1) \/ within(-1), raised |-> ""]

\* Circle.collide_line_segment(v1, v2)
circle_collide_line_segment(circle, v1, v2) ==
    LET pos == << circle.x, circle.y >>
        dir == << v2[1] - v1[1], v2[2] - v1[2] >>
        a == Dot(dir, dir)
        b == 2 * Dot(dir, << v1[1] - pos[1], v1[2] - pos[2] >>)
        c == Dot(v1, v1) + Dot(pos, pos) - 2 * Dot(v1, pos)
                - circle.r * circle.r
    IN  IF \/ collide_point(circle, v1[1], Num(v1[2]), TRUE)
           \/ collide_point(circle, v2[1], Num(v2[2]), TRUE)
        THEN [collided |-> TRUE, raised |-> ""]
        ELSE solve_quadratic_within(a, b, c)

\* Circle.collide_line(v1, v2): (num / den) <= r with den = v2.distance(v1),
\* a division by 0 for v1 = v2
circle_collide_line(circle, v1, v2) ==
    LET x_diff == v2[1] - v1[1]
        y_diff == v2[2] - v1[2]
        n == y_diff * circle.x - x_diff * circle.y
                + v2[1] * v1[2] - v2[2] * v1[1]
        den2 == x_diff * x_diff + y_diff * y_diff
    IN  IF den2 = 0 THEN [collided |-> FALSE, raised |-> "ZeroDivisionError"]
        ELSE [collided |-> n * n <= circle.r * circle.r * den2, raised |-> ""]

\* Circle.collide_line_segment(v1, v2); one call is followed from the initial
\* state
CircleCollideLineSegment ==
    /\ probe = {}
    /\ \E circle \in PointCircles, v1 \in Points : \E seg \in SegmentsFrom(v1) :
        LET res == circle_collide_line_segment(circle, seg[1], seg[2])
        IN  probe' = {[op |-> "Circle.collide_line_segment",
                       circle |-> circle, v1 |-> seg[1], v2 |-> seg[2],
                       collided |-> res.collided, raised |-> res.raised]}
    /\ UNCHANGED but_probe

\* Circle.collide_line(v1, v2)
CircleCollideLine ==
    /\ probe = {}
    /\ \E circle \in PointCircles, v1 \in Points : \E seg \in SegmentsFrom(v1) :
        LET res == circle_collide_line(circle, seg[1], seg[2])
        IN  probe' = {[op |-> "Circle.collide_line",
                       circle |-> circle, v1 |-> seg[1], v2 |-> seg[2],
                       collided |-> res.collided, raised |-> res.raised]}
    /\ UNCHANGED but_probe

NextDegenerate ==
    \/ CircleCollideLineSegment
    \/ CircleCollideLine
    \/ ShellUpdate

\* Calls of the line tests of Circle and of Shell.update, degenerate inputs
\* among them.
SpecDegenerate == Init /\ [][NextDegenerate]_vars

(***************************************************************************)
(* generate_terrain (terrain_generation.py), column by column              *)
(*                                                                         *)
(* The heights of the waypoints are quotients by 4, 6, 10 and 20 and are   *)
(* held in twelfths (field y12); the map height is a multiple of 20, so    *)
(* that they are whole numbers of twelfths.  Every value the code computes *)
(* in floating point is then a quotient of small integers, whose ceiling   *)
(* the floating point arithmetic gets right.                               *)
(***************************************************************************)
FEATURE_SIZE == 200
NOISE_SIZE == 4
SPACE_AROUND == 4
TANK_BODY_SIZE == << 25, 25 >>

\* self.map.size: 120 columns, 200 high
MapSize == << 120, 200 >>

\* the values of random.randrange(map_size[1]) followed
InitHeights == {0, 80}
\* the values of random.randrange(map_height/20, max_height) followed: the
\* first and the last
PlateauHeights(map_height, max_height) == {map_height \div 20, max_height - 1}

\* math.ceil(n / d) and math.floor(n / d) for d > 0
Ceil(n, d) == -((-n) \div d)
Floor(n, d) == n \div d

\* Game.on_pre_enter: the x positions of n tanks on a map width wide, with
\* the least and the greatest noise randrange gives
tank_x_pos(width, n) ==
    LET avg_tank_dist == Floor(width, n + 1)
        noise == {Ceil(-avg_tank_dist, 4), Floor(avg_tank_dist, 4) - 1}
    IN  {[i \in 1 .. n |-> i * avg_tank_dist + d[i]] : d \in [1 .. n -> noise]}

\* sorted(tank_x_positions, reverse=True), read from its end
Ascending(xs) ==
    LET S == {xs[i] : i \in DOMAIN xs}
    IN  CHOOSE s \in [1 .. Cardinality(S) -> S] :
            \A i, j \in 1 .. Cardinality(S) : i < j => s[i] < s[j]

\* create_valley: the waypoints of 'deep', 'shallow' and 'wavy'
create_valley(map_height, prev_height, max_height, size) ==
    { IF 2 * prev_height > map_height
      THEN << [x |-> size \div 4, y12 |-> 10 * prev_height],
              [x |-> size \div 2, y12 |-> 3 * prev_height],
              [x |-> size, y12 |-> (3 * map_height) \div 5] >>
      ELSE << [x |-> size \div 4, y12 |-> 6 * prev_height],
              [x |-> size \div 2, y12 |-> (6 * map_height) \div 5],
              [x |-> size, y12 |-> (3 * map_height) \div 5] >>,
      << [x |-> size \div 4, y12 |-> 10 * prev_height],
         [x |-> size \div 2, y12 |-> 6 * prev_height],
         [x |-> size, y12 |-> 3 * prev_height] >>,
      << [x |-> size \div 4, y12 |-> 6 * prev_height],
         [x |-> size \div 2, y12 |-> 12 * prev_height],
         [x |-> (size * 3) \div 4, y12 |-> 6 * prev_height],
         [x |-> size, y12 |-> 12 * prev_height] >> }

\* create_hill: the waypoints of 'steep' and 'concave'
create_hill(map_height, prev_height, max_height, size) ==
    { IF 2 * prev_height < map_height
      THEN << [x |-> size \div 4,
               y12 |-> Min(24 * prev_height, 12 * max_height)],
              [x |-> size \div 2,
               y12 |-> Min((48 * map_height) \div 5, 12 * max_height)],
              [x |-> size,
               y12 |-> Min((54 * map_height) \div 5, 12 * max_height)] >>
      ELSE << [x |-> size \div 4,
               y12 |-> Min((48 * map_height) \div 5, 12 * max_height)],
              [x |-> size \div 2,
               y12 |-> Min((54 * map_height) \div 5, 12 * max_height)],
              [x |-> size,
               y12 |-> Min((54 * map_height) \div 5, 12 * max_height)] >>,
      << [x |-> size \div 2, y12 |-> 6 * map_height],
         [x |-> size, y12 |-> 9 * map_height] >> }

\* create_plateau: two waypoints at one random height
create_plateau(map_height, prev_height, max_height, size) ==
    { << [x |-> size \div 4, y12 |-> 12 * height],
         [x |-> size, y12 |-> 12 * height] >> :
        height \in PlateauHeights(map_height, max_height) }

\* get_topology, the loop from feature i on: a generator is not taken a
\* third time in a row, and its points are shifted to the feature's place
RECURSIVE features(_, _, _, _)
features(i, num_features, previous, generators) ==
    IF i >= num_features THEN {<< >>}
    ELSE UNION {
           { [k \in DOMAIN new_points |->
                 [new_points[k] EXCEPT !.x = @ + i * FEATURE_SIZE]] \o rest :
               new_points \in generators[idx + 1],
               rest \in features(i + 1, num_features,
                                 << previous[2], idx >>, generators) } :
           idx \in {j \in 0 .. 2 : ~(previous[1] = j /\ previous[2] = j)} }

\* get_topology: the lists of waypoints it can return
get_topology(init_height, map_size, max_height) ==
    LET generators ==
          << create_valley(map_size[2], init_height, max_height, FEATURE_SIZE),
             create_hill(map_size[2], init_height, max_height, FEATURE_SIZE),
             create_plateau(map_size[2], init_height, max_height,
                            FEATURE_SIZE) >>
    IN  UNION { features(0, Ceil(map_size[1], FEATURE_SIZE), previous,
                         generators) :
                previous \in (0 .. 2) \X (0 .. 2) }

\* get_terrain_height: the heights random.randrange can return, none when
\* its range is empty and it raises ValueError; dist_x is never negative,
\* the waypoint at x being replaced at the end of the round for x
get_terrain_height(x, prev_height, max_height, next_tank_pos, next_feature_pos) ==
    LET dist_x == next_feature_pos.x - x
        dist_y12 == next_feature_pos.y12 - 12 * prev_height
        twice == IF next_tank_pos < next_feature_pos.x THEN 2 ELSE 1
        next_height ==
            IF dist_x # 0
            THEN Ceil(12 * prev_height * dist_x + twice * dist_y12,
                      12 * dist_x)
            ELSE Ceil(next_feature_pos.y12, 12)
    IN  Max(next_height - NOISE_SIZE, 1)
            .. Min(next_height + NOISE_SIZE, max_height) - 1

\* generate_terrain up to its loop
generate_terrain_enter(map_size, tank_x_positions, tank_size, height, topology) ==
    [op |-> "generate_terrain", map_size |-> map_size,
     tank_x_positions |-> tank_x_positions, tank_size |-> tank_size,
     max_height |-> map_size[2] - tank_size[2] * 2,
     prev_height |-> height,
     s_t_p |-> Tail(Ascending(tank_x_positions)),
     next_tank_pos |-> Head(Ascending(tank_x_positions)),
     feature_points |-> Tail(topology),
     next_feature_pos |-> Head(topology),
     tank_positions |-> << >>, x |-> 0, columns |-> 0, terrain_top |-> 0,
     raised |-> "", returned |-> FALSE]

\* generate_terrain, one round of its loop with terrain_top settled;
\* tank_positions keeps the x of each Vector(x, terrain_top) appended, whose
\* height is the terrain_top of that round
generate_terrain_append(g, terrain_top, at_tank, s_t_p, next_tank_pos) ==
    LET pop == g.next_feature_pos.x = g.x
    IN  IF pop /\ g.feature_points = << >>
        THEN {[g EXCEPT !.raised = "IndexError"]}
        ELSE {[g EXCEPT
                 !.tank_positions = IF at_tank THEN Append(@, g.x) ELSE @,
                 !.s_t_p = s_t_p, !.next_tank_pos = next_tank_pos,
                 !.next_feature_pos = IF pop THEN Head(g.feature_points) ELSE @,
                 !.feature_points = IF pop THEN Tail(@) ELSE @,
                 !.terrain_top = terrain_top, !.columns = @ + 1,
                 !.prev_height = terrain_top, !.x = @ + 1,
                 !.returned = (g.x + 1 = g.map_size[1])]}

\* generate_terrain, one round of its loop: the states it can leave
generate_terrain_round(g) ==
    LET tops == get_terrain_height(g.x, g.prev_height, g.max_height,
                                   g.next_tank_pos, g.next_feature_pos)
    IN  IF g.x <= g.next_tank_pos
        THEN IF tops = {}
             THEN {[g EXCEPT !.raised = "ValueError"]}
             ELSE UNION { generate_terrain_append(g, top,
                              g.next_tank_pos = g.x, g.s_t_p, g.next_tank_pos) :
                          top \in tops }
        ELSE IF g.x < g.next_tank_pos + g.tank_size[1] - 1
        THEN generate_terrain_append(g, g.prev_height, FALSE, g.s_t_p,
                                     g.next_tank_pos)
        ELSE IF g.s_t_p # << >>
        THEN generate_terrain_append(g, g.prev_height, FALSE, Tail(g.s_t_p),
                                     Head(g.s_t_p))
        ELSE generate_terrain_append(g, g.prev_height, FALSE, g.s_t_p,
                                     g.map_size[1] + 1)

\* Game.on_pre_enter calls generate_terrain for two players
GenerateTerrainEnter ==
    /\ probe = {}
    /\ \E height \in InitHeights, xs \in tank_x_pos(MapSize[1], 2) :
         LET tank_size == << TANK_BODY_SIZE[1] + SPACE_AROUND,
                             TANK_BODY_SIZE[2] >>
             max_height == MapSize[2] - tank_size[2] * 2
         IN  \E topology \in get_topology(Min(height, max_height), MapSize,
                                          max_height) :
                probe' = {generate_terrain_enter(MapSize, xs, tank_size,
                              Min(height, max_height), topology)}
    /\ UNCHANGED but_probe

\* generate_terrain appends the column of the next x, or raises
GenerateTerrainRound ==
    /\ probe # {}
    /\ TheProbe.op = "generate_terrain"
    /\ TheProbe.raised = ""
    /\ ~TheProbe.returned
    /\ \E g \in generate_terrain_round(TheProbe) : probe' = {g}
    /\ UNCHANGED but_probe

NextGenerate ==
    \/ GenerateTerrainEnter
    \/ GenerateTerrainRound

\* Calls of generate_terrain.
SpecGenerate == Init /\ [][NextGenerate]_vars

(***************************************************************************)
(* get_topology (terrain_generation.py): the types of the features         *)
(*                                                                         *)
(* The generators create_valley, create_hill and create_plateau are the    *)
(* indices 0, 1 and 2.  A draw of idx that the loop rejects leaves the     *)
(* state as it is and is not a step.                                       *)
(***************************************************************************)
\* map_size[0] of the maps followed: 1, 4 and 5 features
MapWidths == {120, 800, 1000}

\* a faulty choice: any generator, whatever came before
topology_choices_Any(previous) == 0 .. 2

\* get_topology, the inner loop: the values of idx it can leave with, those
\* with previous.count(idx) != 2
topology_choices(previous) ==
    {idx \in 0 .. 2 : ~(previous[1] = idx /\ previous[2] = idx)}

\* get_topology up to its loop: previous is drawn
get_topology_enter(width, previous) ==
    [op |-> "get_topology", num_features |-> Ceil(width, FEATURE_SIZE),
     i |-> 0, previous |-> previous, types |-> << >>]

\* get_topology, one round of its loop: previous.pop(0) and
\* previous.append(idx); types is the list of the idx chosen so far
get_topology_round(t, idx) ==
    [t EXCEPT !.i = @ + 1, !.previous = << t.previous[2], idx >>,
              !.types = Append(@, idx)]

\* get_topology is called for a map
GetTopologyEnter ==
    /\ probe = {}
    /\ \E width \in MapWidths, previous \in (0 .. 2) \X (0 .. 2) :
          probe' = {get_topology_enter(width, previous)}
    /\ UNCHANGED but_probe

\* get_topology chooses the generator of the next feature
GetTopologyRound ==
    /\ probe # {}
    /\ TheProbe.op = "get_topology"
    /\ TheProbe.i < TheProbe.num_features
    /\ \E idx \in topology_choices(TheProbe.previous) :
          probe' = {get_topology_round(TheProbe, idx)}
    /\ UNCHANGED but_probe

NextTopology ==
    \/ GetTopologyEnter
    \/ GetTopologyRound

\* Calls of get_topology.
SpecTopology == Init /\ [][NextTopology]_vars

(***************************************************************************)
(* Properties of the match                                                 *)
(***************************************************************************)
TheShell == The(shell)
TheTracer == The(tracer)
InRoster(seq) == {seq[i] : i \in 1 .. Len(seq)}

\* C1: at most one shell exists at any time of a match: the shell widgets on
\* the map are exactly the shell the game holds, a shell is only in flight
\* while the inputs are disabled, and every fire happens with no shell on the
\* map and puts exactly one there.
C1_OneShell ==
    /\ [](/\ Cardinality(shell) <= 1
          /\ map_shells = {sh.id : sh \in shell}
          /\ shell # {} => (screen = "game" /\ disabled))
    /\ [][fired' = fired + 1 =>
            /\ shell = {} /\ map_shells = {} /\ ~disabled
            /\ map_shells' = {fired'}
            /\ shell' # {} /\ The(shell').id = fired']_vars

\* the second shell of a match is in flight, the first one gone
C1_Witness == fired = 2 /\ map_shells = {2} /\ shell # {}

\* the last hit of a match: a player was eliminated and one is left
FinalHit(c) ==
    c.collided /\ c.player # {} /\ Len(c.after.players) = 1

\* C2: the match is on the Victory screen exactly when the last shot
\* eliminated a player and left one; the report is the player count of the
\* setup, the survivor, and the survivor's kills and shots as the last
\* _check_collisions left them (not the values _end resets them to); in a
\* match of two, a first shot that hits the other player is reported as
\* 2 players, the firer, 1 kill, 1 shot.
C2_VictoryReport ==
    /\ [](/\ screen = "game" => (~FinalHit(check) /\ victory = {})
          /\ screen = "victory" =>
                /\ FinalHit(check)
                /\ victory =
                     {[player_count |-> check.after.init_player_count,
                       player |-> check.after.players[1],
                       kills |-> check.after.kills[check.after.players[1]],
                       shots |-> check.after.shots[check.after.players[1]]]}
                /\ (check.before.init_player_count = 2
                        /\ check.player # check.firer
                        /\ check.before.shots[The(check.firer)] = 1)
                      => victory = {[player_count |-> 2,
                                     player |-> The(check.firer),
                                     kills |-> 1, shots |-> 1]})
    /\ [][(screen = "menu" /\ screen' = "game")
              => init_player_count' = Len(players')]_vars
    /\ [][(screen = "game" /\ screen' = "game")
              => init_player_count' = init_player_count]_vars

\* a match of two players ended by player 1's first shot hitting player 2
C2_Witness ==
    /\ screen = "victory"
    /\ check.before.players = << 1, 2 >>
    /\ check.firer = {1} /\ check.player = {2}
    /\ victory = {[player_count |-> 2, player |-> 1, kills |-> 1, shots |-> 1]}

\* the players other than the hit one and the firer keep kills and shots, the
\* hit player is the one player removed and is reset
HitRemovesOne(c) ==
    LET h == The(c.player)
        f == The(c.firer)
        b == c.before
        a == c.after
        i == IndexOf(b.players, h)
    IN  /\ h \in InRoster(b.players)
        /\ Len(a.players) = Len(b.players) - 1
        /\ a.players = DelAt(b.players, i)
        /\ ~a.tank[h] /\ a.traces[h] = << >>
        /\ a.kills[h] = 0 /\ a.shots[h] = 0
        /\ \A q \in PlayerIds \ {h} :
              /\ a.tank[q] = b.tank[q] /\ a.traces[q] = b.traces[q]
              /\ a.shots[q] = b.shots[q]
              /\ q # f => a.kills[q] = b.kills[q]

\* C3 as stated: every hit removes exactly the hit player and adds one to the
\* firer's kills.
C3_Original ==
    check.player # {} =>
        /\ HitRemovesOne(check)
        /\ check.after.kills[The(check.firer)] =
               check.before.kills[The(check.firer)] + 1

\* C3, amended: every hit removes exactly the hit player, resets that player
\* and leaves the others' kills and shots alone; the firer's kills go up by
\* one if the firer is not the hit player, and are reset to 0 with the rest of
\* the firer's state if the firer's own tank is hit.
C3_HitEliminatesOne ==
    check.player # {} =>
        /\ HitRemovesOne(check)
        /\ check.after.kills[The(check.firer)] =
               IF check.player = check.firer THEN 0
               ELSE check.before.kills[The(check.firer)] + 1

\* a player hits the own tank in a match of three
C3_Witness ==
    /\ check.player # {} /\ check.player = check.firer
    /\ Len(check.before.players) = 3
    /\ check.after.kills[The(check.firer)] = 0

\* C4: _switch_player moves to (index + 1) modulo the number of players left,
\* the index being the one _remove_player left; 0 -> 1 with three players,
\* and from the last index to 0.
C4_SwitchPlayer ==
    (screen = "game" /\ check.collided) =>
        /\ players = check.after.players
        /\ c_player_idx = (check.after.c_player_idx + 1) % Len(players)
        /\ (Len(players) = 3 /\ check.after.c_player_idx = 0)
              => c_player_idx = 1
        /\ check.after.c_player_idx = Len(players) - 1 => c_player_idx = 0

\* three players, the turn passes from index 0 to index 1
C4_Witness ==
    /\ screen = "game" /\ check.collided /\ Len(players) = 3
    /\ check.after.c_player_idx = 0 /\ c_player_idx = 1

\* C6: the sample interval is scheduled only for the tracer of the shell in
\* flight, the update interval only while the match holds its roster; no
\* trace in a history belongs to a scheduled sampler, and once a trace is in
\* a history its points do not change.
C6_CallbacksOwned ==
    /\ [](/\ clock_sample # {} =>
                /\ tracer # {} /\ shell # {}
                /\ clock_sample = {TheTracer.id}
                /\ TheShell.id = TheTracer.id
                /\ TheShell.id \in map_shells
          /\ clock_update =>
                /\ screen = "game" /\ update_event
                /\ Len(players) >= 1
                /\ \A p \in InRoster(players) : tank[p]
          /\ screen # "game" =>
                /\ ~clock_update /\ clock_sample = {}
                /\ shell = {} /\ tracer = {} /\ players = << >>
                /\ trace_display = << >>
          /\ \A p \in PlayerIds : \A i \in 1 .. Len(traces[p]) :
                traces[p][i].id \notin clock_sample)
    /\ [][\A p \in PlayerIds : \A i \in 1 .. Len(traces[p]) :
            \A j \in 1 .. Len(traces'[p]) :
                traces'[p][j].id = traces[p][i].id
                    => traces'[p][j].points = traces[p][i].points]_vars

\* a shot with a sampled point has ended, the match goes on, nothing samples
C6_Witness ==
    /\ screen = "game" /\ shell = {} /\ clock_sample = {} /\ clock_update
    /\ \E p \in PlayerIds :
          Len(traces[p]) > 0 /\ Len(traces[p][1].points) > 0

\* C7: during a match the wind is within [-max_wind/2, +max_wind/2] (here in
\* two-hundredths), a shell in flight holds the wind of the match, and the
\* wind of a match changes only when _switch_player runs (a shot has ended).
C7_Wind ==
    /\ [](screen = "game" =>
            /\ wind # {}
            /\ -100 * max_wind <= The(wind) /\ The(wind) <= 100 * max_wind
            /\ shell # {} => TheShell.wind = The(wind))
    /\ [][(screen = "game" /\ screen' = "game" /\ wind' # wind)
            => (shell # {} /\ shell' = {} /\ check'.collided)]_vars

\* the second shell of a match flies in a wind of 0.49 * MAX_WIND
C7_Witness ==
    /\ shell # {} /\ fired = 2
    /\ TheShell.wind = 98 * MAX_WIND /\ wind = {98 * MAX_WIND}

\* the trace _switch_player draws for the player whose turn it is
Redisplayed(hist) ==
    IF Len(hist) = 0 THEN << >>
    ELSE << [color |-> "previous", points |-> hist[Len(hist)].points,
             id |-> hist[Len(hist)].id] >>

\* C8: a history never holds more than MAX_TRACES traces and holds them in
\* firing order; a trace added to a full history drops the oldest one and
\* keeps the rest; while a player aims, the trace drawn is the last one of
\* that player's history, so the one recorded last.
C8_TraceHistory ==
    /\ [](/\ \A p \in PlayerIds :
                /\ Len(traces[p]) <= MAX_TRACES
                /\ \A i \in 1 .. (Len(traces[p]) - 1) :
                      traces[p][i].id < traces[p][i + 1].id
          /\ (screen = "game" /\ shell = {}) =>
                trace_display = Redisplayed(traces[c_player(G)]))
    /\ [][\A p \in PlayerIds :
            (traces'[p] # traces[p] /\ traces'[p] # << >>) =>
                /\ shell # {} /\ TheShell.player = p
                /\ traces'[p][Len(traces'[p])].id = TheShell.id
                /\ IF Len(traces[p]) = MAX_TRACES
                   THEN traces'[p] =
                          Append(Tail(traces[p]), traces'[p][Len(traces'[p])])
                   ELSE traces'[p] =
                          Append(traces[p], traces'[p][Len(traces'[p])])]_vars

\* a player aims with a full history whose oldest trace is gone, and sees
\* the trace of the last own shot
C8_Witness ==
    /\ screen = "game" /\ shell = {}
    /\ Len(traces[c_player(G)]) = MAX_TRACES
    /\ traces[c_player(G)][1].id > 2
    /\ trace_display = Redisplayed(traces[c_player(G)])
    /\ traces[c_player(G)][MAX_TRACES].id = fired - 1

(***************************************************************************)
(* Properties of the terrain                                               *)
(***************************************************************************)
TheBlast == The(blast)

\* the segments of a list of transitions, as indices i of _get_segments
Segments(transitions) == 0 .. (Len(transitions) \div 2 - 1)

\* r^2 - (x - pos.x)^2: the circle meets the line of column x iff it is >= 0
HalfChordSq(circle, x) ==
    circle.r * circle.r - (x - circle.x) * (x - circle.x)

LowerRoot(circle, x) ==
    PlusRoot(circle.y, -1, HalfChordSq(circle, x), circle.r)
UpperRoot(circle, x) ==
    PlusRoot(circle.y, 1, HalfChordSq(circle, x), circle.r)

\* C5 as stated: whatever was excavated, no exception was raised and every
\* column has even length and strictly increasing transitions.
C5_Original ==
    /\ raised = ""
    /\ \A x \in 1 .. Len(solid_parts) :
          /\ Len(solid_parts[x]) % 2 = 0
          /\ \A i \in 1 .. (Len(solid_parts[x]) - 1) :
                Less(solid_parts[x][i], solid_parts[x][i + 1])

\* the circle crosses column x strictly between bot and top
Pierces(circle, x, bot, top) ==
    /\ HalfChordSq(circle, x) > 0
    /\ Less(bot, LowerRoot(circle, x))
    /\ Less(UpperRoot(circle, x), top)

\* C9: a segment (bot, top) that the circle pierces strictly between its
\* ends is replaced by (bot, lower root) and (upper root, top); the column
\* [0, 100] under the circle of radius 10 centred at (x, 50) becomes
\* [0, 40, 60, 100].
C9_SplitInterval ==
    [][explosions' = explosions + 1 =>
        \A x \in 0 .. (Len(solid_parts) - 1) :
            LET old == solid_parts[x + 1]
                new == solid_parts'[x + 1]
                c == TheBlast'
            IN  /\ \A i \in Segments(old) :
                      Pierces(c, x, old[i * 2 + 1], old[i * 2 + 2]) =>
                          \E j \in 1 .. (Len(new) - 3) :
                              SubSeq(new, j, j + 3) =
                                  << old[i * 2 + 1], LowerRoot(c, x),
                                     UpperRoot(c, x), old[i * 2 + 2] >>
                /\ (old = << Num(0), Num(100) >>
                        /\ c = [x |-> x, y |-> 50, r |-> 10])
                      => new = << Num(0), Num(40), Num(60), Num(100) >>]_vars

\* the first circle on a new terrain had radius 10 and its centre at height
\* 50 in column 1, whose top was 100: the column has been split
C9_Witness ==
    /\ explosions = 1
    /\ blast = {[x |-> 1, y |-> 50, r |-> 10]}
    /\ solid_parts[2] = << Num(0), Num(40), Num(60), Num(100) >>

\* C10 as stated: the column [0, 100] under the circle of radius 20 centred
\* at (x, 5) is left with no interval.
C10_Original ==
    [][explosions' = explosions + 1 =>
        \A x \in 0 .. (Len(solid_parts) - 1) :
            (solid_parts[x + 1] = << Num(0), Num(100) >>
                /\ TheBlast' = [x |-> x, y |-> 5, r |-> 20])
              => solid_parts'[x + 1] = << >>]_vars

\* C10, amended: the circle of radius 20 centred at (x, 5) holds the bottom
\* (x, 0) of the column [0, 100] but not its top, so the bottom is moved to
\* the upper root 25 and the column becomes [25, 100]; a column whose only
\* segment has both ends strictly inside the circle is left empty, and one
\* with only its bottom inside gets the upper root as its bottom.
C10_BottomRaised ==
    [][explosions' = explosions + 1 =>
        \A x \in 0 .. (Len(solid_parts) - 1) :
            LET old == solid_parts[x + 1]
                new == solid_parts'[x + 1]
                c == TheBlast'
            IN  /\ (old = << Num(0), Num(100) >>
                        /\ c = [x |-> x, y |-> 5, r |-> 20])
                      => new = << Num(25), Num(100) >>
                /\ (Len(old) = 2 /\ OffCircle(c, x, old[1]) < 0
                        /\ OffCircle(c, x, old[2]) < 0)
                      => new = << >>
                /\ (Len(old) = 2 /\ OffCircle(c, x, old[1]) < 0
                        /\ OffCircle(c, x, old[2]) > 0)
                      => new = << UpperRoot(c, x), old[2] >>]_vars

\* the first circle on a new terrain had radius 20 and its centre at height
\* 5 in column 1, whose top was 100: the bottom of the column is at 25
C10_Witness ==
    /\ explosions = 1
    /\ blast = {[x |-> 1, y |-> 5, r |-> 20]}
    /\ solid_parts[2] = << Num(25), Num(100) >>

\* the segment between bot and top of column x, in either order, has no point
\* in the closed disc of the circle
Untouched(circle, x, bot, top) ==
    \/ HalfChordSq(circle, x) < 0
    \/ Less(bot, LowerRoot(circle, x)) /\ Less(top, LowerRoot(circle, x))
    \/ Less(UpperRoot(circle, x), bot) /\ Less(UpperRoot(circle, x), top)

\* C11: an excavation leaves every column outside the horizontal extent of
\* the circle as it was, and every segment that has no point in the circle
\* keeps its two boundaries: a column all of whose segments are clear of the
\* circle is unchanged, and in a column where other segments are cut the
\* segments clear of the circle are still there, in their order.
C11_Frame ==
    [][explosions' = explosions + 1 =>
        \A x \in 0 .. (Len(solid_parts) - 1) :
            LET old == solid_parts[x + 1]
                new == solid_parts'[x + 1]
                c == TheBlast'
                clear == {i \in Segments(old) :
                            Untouched(c, x, old[i * 2 + 1], old[i * 2 + 2])}
            IN  /\ Len(solid_parts') = Len(solid_parts)
                /\ (x < c.x - c.r \/ x > c.x + c.r) => new = old
                /\ clear = Segments(old) => new = old
                /\ \A i \in clear : \E j \in Segments(new) :
                      /\ new[j * 2 + 1] = old[i * 2 + 1]
                      /\ new[j * 2 + 2] = old[i * 2 + 2]
                /\ \A i1, i2 \in clear : i1 < i2 =>
                      \E j1, j2 \in Segments(new) :
                          /\ j1 < j2
                          /\ new[j1 * 2 + 1] = old[i1 * 2 + 1]
                          /\ new[j1 * 2 + 2] = old[i1 * 2 + 2]
                          /\ new[j2 * 2 + 1] = old[i2 * 2 + 1]
                          /\ new[j2 * 2 + 2] = old[i2 * 2 + 2]]_vars

\* column 1 was split into (0, 40) and (60, 100); the circle of radius 20
\* centred at (1, 5) then raised the bottom of the lower segment and left the
\* upper one, which it does not reach, as it was
C11_Witness ==
    /\ explosions = 2
    /\ blast = {[x |-> 1, y |-> 5, r |-> 20]}
    /\ solid_parts[2] = << Num(25), Num(40), Num(60), Num(100) >>


C13_Original ==
    (probe # {} /\ TheProbe.op = "Rectangle.collide_point")
        => TheProbe.collided

Updated == probe # {} /\ TheProbe.op = "Shell.update"
\* the shell of the last call after its translation, and after its drag
Moved == move_shell(TheProbe.shell)
Dragged == apply_drag(Moved)
OverWall == Moved.x < 0 \/ Moved.x + Moved.width > Parent.width
OverTop == Moved.y + Moved.height > Parent.height

\* the bounce off the walls and off the top, and none off the floor
BounceRule ==
    /\ OverWall =>
          /\ TheProbe.after.velocity_x = -Dragged.velocity_x
          /\ 0 <= TheProbe.after.x
          /\ TheProbe.after.x + TheProbe.after.width <= Parent.width
    /\ ~OverWall =>
          /\ TheProbe.after.velocity_x = Dragged.velocity_x
          /\ TheProbe.after.x = Moved.x
    /\ OverTop =>
          /\ TheProbe.after.velocity_y = -Dragged.velocity_y
          /\ TheProbe.after.y + TheProbe.after.height = Parent.height
    /\ ~OverTop =>
          /\ TheProbe.after.velocity_y = Dragged.velocity_y
          /\ TheProbe.after.y = Moved.y

\* the shell of the example: x = -1 and velocity.x = -50 in a field 800 wide
Example == TheProbe.shell.x = -1 * Tenth /\ TheProbe.shell.velocity_x = -50 * Fine

\* C14 as stated: a shell past a wall after its translation has velocity.x
\* inverted and lies within the field, a shell past the top has velocity.y
\* inverted and its top at the height, a shell below 0 is left alone, and
\* the shell at x = -1 with velocity.x = -50 ends with velocity.x = +50 and
\* x within [0, 800].
C14_Original ==
    Updated =>
        /\ BounceRule
        /\ Example =>
              /\ TheProbe.after.velocity_x = 50 * Fine
              /\ TheProbe.after.x \in 0 .. Parent.width

\* C14: a shell past a wall after its translation ends the update with the
\* inverse of the velocity.x the drag left it and within the field, a shell
\* past the top with the inverse of the velocity.y the drag left it and its
\* top at the height, and a shell below 0 is left alone; the shell at x = -1
\* with velocity.x = -50 ends with x = 0 and a velocity.x that is +50 when
\* the drag coefficient is 0 and below +50 when it is DRAG_COEFFICIENT.
C14_WallBounce ==
    Updated =>
        /\ BounceRule
        /\ Example =>
              /\ TheProbe.after.x = 0
              /\ TheProbe.shell.drag = 0 =>
                    TheProbe.after.velocity_x = 50 * Fine
              /\ TheProbe.shell.drag = 1 =>
                    /\ 0 < TheProbe.after.velocity_x
                    /\ TheProbe.after.velocity_x < 50 * Fine

\* the shell of the example, in still air and with the default drag, is back
\* at x = 0 with velocity.x = 49.9375
C14_Witness ==
    /\ Updated
    /\ Example
    /\ TheProbe.shell.drag = 1 /\ TheProbe.shell.wind = 0
    /\ TheProbe.shell.velocity_y = 20 * Fine
    /\ TheProbe.after.x = 0
    /\ 16 * TheProbe.after.velocity_x = 799 * Fine

(***************************************************************************)
(* Properties of generate_terrain                                          *)
(***************************************************************************)
\* a call of generate_terrain is under way or over
Generating == probe # {} /\ TheProbe.op = "generate_terrain"

\* the columns appended so far are one per x, each with its top between 1
\* and max_height
ColumnsSoFar ==
    /\ TheProbe.columns = TheProbe.x
    /\ TheProbe.columns > 0 =>
          /\ 1 <= TheProbe.terrain_top
          /\ TheProbe.terrain_top <= TheProbe.max_height
    /\ TheProbe.returned => TheProbe.columns = TheProbe.map_size[1]

\* C16 as stated: for every random choice generate_terrain produces one
\* column per x in 0..mapWidth-1, each [0, top] with
\* 1 <= top <= mapHeight - 2*tankHeight; so no choice makes it raise.
C16_Original == Generating => (TheProbe.raised = "" /\ ColumnsSoFar)

(***************************************************************************)
(* Properties of the turn order and of the shot's end                      *)
(***************************************************************************)
\* the first of the survivors met from the place after index f on, going
\* round the roster
FirstAfter(roster, f, survivors) ==
    LET n == Len(roster)
        k == CHOOSE k \in 1 .. n :
                /\ roster[((f + k) % n) + 1] \in survivors
                /\ \A j \in 1 .. (k - 1) :
                      roster[((f + j) % n) + 1] \notin survivors
    IN  roster[((f + k) % n) + 1]

\* C17: once a shot has ended and the match goes on, at least two players
\* are left and the current player is the first player left that follows
\* the firer in the roster as it was, going round from the last index to 0,
\* whether terrain, another player or the firer was hit; and while a player
\* aims the current index is an index of the roster.
C17_NextPlayer ==
    /\ (screen = "game" /\ check.collided) =>
          /\ Len(players) >= 2
          /\ c_player(G) =
                FirstAfter(check.before.players,
                           IndexOf(check.before.players, The(check.firer)),
                           InRoster(players))
    /\ (screen = "game" /\ shell = {}) =>
          (0 <= c_player_idx /\ c_player_idx < Len(players))

\* the player at index 0 of a roster of three hit the own tank, and the turn
\* is with the player that was at index 1
C17_Witness ==
    /\ screen = "game" /\ shell = {}
    /\ check.collided /\ check.player = check.firer
    /\ Len(check.before.players) = 3 /\ check.before.c_player_idx = 0
    /\ c_player_idx = 0 /\ c_player(G) = check.before.players[2]

\* C18: during a match the power, angle and fire controls are disabled
\* exactly while a shell is in flight, and they are enabled when no match
\* runs; a fire finds them enabled and disables them; and while a shell
\* stays in flight the roster, the current index and the number of shells
\* fired stay as they are, the current player being the shell's owner.
C18_InputsDisabledInFlight ==
    /\ [](/\ screen = "game" => (disabled <=> shell # {})
          /\ screen # "game" => ~disabled
          /\ shell # {} => c_player(G) = TheShell.player)
    /\ [][fired' = fired + 1 => (~disabled /\ disabled')]_vars
    /\ [][(shell # {} /\ shell' # {}) =>
            /\ shell' = shell /\ fired' = fired
            /\ players' = players /\ c_player_idx' = c_player_idx]_vars

\* the first shot of a match has ended, the match goes on and the controls
\* are enabled again
C18_Witness ==
    /\ screen = "game" /\ shell = {} /\ ~disabled
    /\ fired = 1 /\ check.collided

\* the Trace of the shell in flight: its power, angle and wind and the points
\* its tracer has sampled
TraceOfShell ==
    [power |-> TheShell.init_power, angle |-> TheShell.init_angle,
     wind |-> TheShell.wind, points |-> TheTracer.trace_points,
     id |-> TheShell.id]

\* a shot ends and the match goes on
ShotEnds == shell # {} /\ shell' = {} /\ screen' = "game"

\* C19: when a shot ends, the match goes on and the firer was not hit, the
\* firer's history is the old one (less its oldest trace if it was full)
\* with one trace added, that of the shot: its power, angle, wind and
\* sampled points; the other histories get no trace.  When the firer's own
\* tank was hit, no history gets a trace.
C19_TraceRecorded ==
    [][ShotEnds =>
          /\ check'.player # {TheShell.player} =>
                traces'[TheShell.player] =
                   Append(IF Len(traces[TheShell.player]) = MAX_TRACES
                          THEN Tail(traces[TheShell.player])
                          ELSE traces[TheShell.player], TraceOfShell)
          /\ \A q \in PlayerIds :
                (q # TheShell.player \/ check'.player = {TheShell.player}) =>
                    traces'[q] = IF q \in check'.player THEN << >>
                                 ELSE traces[q]]_vars

\* a shot with a sampled point has hit another player of a match of three,
\* and the firer's history holds its trace
C19_Witness ==
    /\ screen = "game" /\ shell = {} /\ check.collided
    /\ check.player # {} /\ check.player # check.firer
    /\ Len(check.before.players) = 3
    /\ Len(traces[The(check.firer)]) = 1
    /\ traces[The(check.firer)][1].id = fired
    /\ Len(traces[The(check.firer)][1].points) = 1

\* the place in the roster of the first player whose tank the shell overlapped
FirstHit(c) ==
    CHOOSE i \in 1 .. Len(c.before.players) :
        /\ c.before.players[i] \in c.hits
        /\ \A j \in 1 .. (i - 1) : c.before.players[j] \notin c.hits

\* C20: when the shell overlaps tanks, whatever it overlaps besides (terrain,
\* the floor, more tanks), the call reports the first of these players in
\* roster order, removes that player and no other, and leaves the terrain as
\* it is; the terrain is tested, and dug out by one explosion when the shell
\* is above 0 and overlaps it, only when no tank is overlapped.
C20_PlayersBeforeTerrain ==
    /\ check.hits # {} =>
          /\ check.collided
          /\ check.player = {check.before.players[FirstHit(check)]}
          /\ check.after.players =
                DelAt(check.before.players, FirstHit(check) - 1)
          /\ check.after.explosions = check.before.explosions
    /\ check.hits = {} =>
          /\ check.player = {}
          /\ check.after.players = check.before.players
          /\ check.collided = (check.below \/ check.terr)
          /\ check.after.explosions =
                IF ~check.below /\ check.terr
                THEN check.before.explosions + 1
                ELSE check.before.explosions

\* the shell overlaps the tanks of the second and third player of a roster
\* of three and the terrain as well: the second player is out, the third
\* stays, and the terrain is as it was
C20_Witness ==
    /\ screen = "game" /\ check.terr /\ ~check.below
    /\ Len(check.before.players) = 3
    /\ check.hits = {check.before.players[2], check.before.players[3]}
    /\ check.player = {check.before.players[2]}
    /\ players = << check.before.players[1], check.before.players[3] >>
    /\ explosions = 0

(***************************************************************************)
(* Properties of a shot that ends on the terrain or under the map          *)
(***************************************************************************)
\* C21: whenever Map.terrain_collision reports a hit, be it that the shell
\* overlaps the terrain or that it is underneath the map, the terrain has
\* been dug out by one explosion at the shell before the turn is switched.
C21_Original ==
    (check.collided /\ check.player = {}) =>
        check.after.explosions = check.before.explosions + 1

\* an update tick that found the shell's lowest point below 0 and no tank
\* overlapped (`check` changes with every such tick: the tick before it of
\* the same shell found no collision, and a shell before it was fired with
\* other shot counts)
TickBelow == check' # check /\ check'.below /\ check'.hits = {}

\* C22: a tick that finds the shell's lowest point below 0 and no tank hit
\* ends the shot in that tick, whether the shell overlaps terrain or not:
\* the shell and its sampler are gone, no player left the roster, the turn
\* is with the next player of the roster and the controls are enabled.
C22_FloorEndsShot ==
    [][TickBelow =>
          /\ shell # {} /\ shell' = {} /\ map_shells' = {}
          /\ tracer' = {} /\ clock_sample' = {}
          /\ check'.collided /\ check'.player = {}
          /\ screen' = "game" /\ ~disabled'
          /\ players' = players
          /\ c_player_idx' = (c_player_idx + 1) % Len(players)]_vars

\* the first shell of a match of three fell under the map over a column with
\* no terrain; the second player aims
C22_Witness ==
    /\ screen = "game" /\ shell = {} /\ tracer = {} /\ fired = 1
    /\ check.below /\ ~check.terr /\ check.hits = {} /\ check.collided
    /\ Len(players) = 3 /\ c_player_idx = 1 /\ ~disabled

(***************************************************************************)
(* Properties of Terrain.explode as a subtraction                          *)
(***************************************************************************)
\* the y coordinates at which the solidity of column x can change: the
\* transitions of the column before and after, and the roots of the circle
Breaks(old, new, circle, x) ==
    {old[i] : i \in 1 .. Len(old)} \cup {new[i] : i \in 1 .. Len(new)}
        \cup (IF HalfChordSq(circle, x) >= 0
              THEN {LowerRoot(circle, x), UpperRoot(circle, x)} ELSE {})

\* the points between p and q, p < q, are solid: they lie on one of the
\* segments (x, bot) - (x, top) that Terrain.collide_with and Terrain.explode
\* test, whichever end of it is the higher
SolidBetween(transitions, p, q) ==
    \E i \in Segments(transitions) :
        LET bot == transitions[i * 2 + 1]
            top == transitions[i * 2 + 2]
        IN  \/ Leq(bot, p) /\ Leq(q, top)
            \/ Leq(top, p) /\ Leq(q, bot)

\* the points of column x between p and q lie in the circle
DiscBetween(circle, x, p, q) ==
    /\ HalfChordSq(circle, x) >= 0
    /\ Leq(LowerRoot(circle, x), p) /\ Leq(q, UpperRoot(circle, x))

\* C23: Terrain.explode subtracts the disc column by column: after it a
\* point of a column is solid iff it was solid before and lies outside the
\* circle, whatever number of intervals the column holds (stated for the
\* points between two neighbouring y coordinates at which solidity can
\* change, which leaves the boundary points themselves aside).
C23_Original ==
    [][(explosions' = explosions + 1 /\ raised' = "") =>
        \A x \in 0 .. (Len(solid_parts) - 1) :
            LET old == solid_parts[x + 1]
                new == solid_parts'[x + 1]
                c == TheBlast'
                breaks == Breaks(old, new, c, x)
            IN  \A p, q \in breaks :
                   (Less(p, q) /\ \A b \in breaks : ~(Less(p, b) /\ Less(b, q)))
                     => (SolidBetween(new, p, q) <=>
                            (SolidBetween(old, p, q)
                                /\ ~DiscBetween(c, x, p, q)))]_vars

(***************************************************************************)
(* Properties of Tank.collide_with                                         *)
(***************************************************************************)
\* two rectangles with sides parallel to the axes have a point in common
Overlap(r1, r2) ==
    /\ rect_get_bbox(r1).min_x <= rect_get_bbox(r2).max_x
    /\ rect_get_bbox(r2).min_x <= rect_get_bbox(r1).max_x
    /\ rect_get_bbox(r1).min_y <= rect_get_bbox(r2).max_y
    /\ rect_get_bbox(r2).min_y <= rect_get_bbox(r1).max_y

\* C24: Tank.collide_with(shell) is true whenever the shell's rectangle
\* overlaps the rectangle of the tank's body or of its barrel, also when the
\* shell lies wholly inside the body and no sides cross.
C24_Original ==
    (probe # {} /\ TheProbe.op = "Tank.collide_with") =>
        ((Overlap(TheProbe.shell_rect, BodyRect)
             \/ Overlap(TheProbe.shell_rect, BarrelRect))
           => TheProbe.collided)

(***************************************************************************)
(* Properties of the end of a match                                        *)
(***************************************************************************)
\* C25: when no match runs (the menu or the Victory screen is shown, after
\* a victory or an exit to the menu) every player, eliminated during the
\* match or removed at its end, has kills 0, shots 0, no tank and no traces,
\* and the game holds no shell, no tracer, no wind, no update event or
\* scheduled interval, no trace drawn, an empty roster, index 0, player
\* count 0, the default max_wind and enabled controls: the state in which
\* the first match was started.
C25_MatchEndResets ==
    screen # "game" =>
        /\ \A p \in PlayerIds :
              /\ kills[p] = 0 /\ shots[p] = 0
              /\ ~tank[p] /\ traces[p] = << >>
        /\ shell = {} /\ tracer = {} /\ wind = {} /\ map_shells = {}
        /\ ~update_event /\ ~clock_update /\ clock_sample = {}
        /\ trace_display = << >>
        /\ players = << >> /\ c_player_idx = 0 /\ init_player_count = 0
        /\ max_wind = MAX_WIND /\ ~disabled

\* a match of three in which a player was eliminated by the first shell was
\* left for the menu after the second shell had been fired
C25_Witness ==
    /\ screen = "menu" /\ fired = 2
    /\ Len(check.before.players) = 3 /\ check.player # {}
    /\ check.player # check.firer
    /\ check.before.shots[The(check.firer)] = 1

(***************************************************************************)
(* Properties of degenerate inputs                                         *)
(***************************************************************************)
\* the last call was a line test of Circle with a segment of length 0 that
\* lies outside the circle
ZeroLengthOutside ==
    /\ probe # {}
    /\ TheProbe.op \in {"Circle.collide_line_segment", "Circle.collide_line"}
    /\ TheProbe.v1 = TheProbe.v2
    /\ OffCircle(TheProbe.circle, TheProbe.v1[1], Num(TheProbe.v1[2])) > 0

\* the last call was Shell.update on a shell whose air velocity, after the
\* move and gravity, is exactly zero
ZeroAirVelocity ==
    /\ probe # {} /\ TheProbe.op = "Shell.update"
    /\ air_vel(move_shell(TheProbe.shell)) = << 0, 0 >>

\* C26: degenerate inputs raise no division fault: Circle.collide_line_segment
\* and Circle.collide_line with a segment of length 0 outside the circle
\* return no collision, and Shell.update with an air velocity of exactly zero
\* applies no drag.
C26_Original ==
    /\ ZeroLengthOutside => (TheProbe.raised = "" /\ ~TheProbe.collided)
    /\ ZeroAirVelocity =>
          TheProbe.after = bounce(move_shell(TheProbe.shell), Parent)

(***************************************************************************)
(* Properties of the tank positions generate_terrain returns               *)
(***************************************************************************)
\* the round that has just appended column x - 1 lies under the tank at t:
\* one of the tank_size[0] columns t .. t + tank_size[0] - 1, not the first
UnderTank(g, t) == t < g.x - 1 /\ g.x - 1 <= t + g.tank_size[1] - 1

\* C27: generate_terrain returns one position for each requested tank x, the
\* i-th for the i-th requested x, at the top of the terrain in column x, and
\* every column of the tank_size[0] columns from x on has the top of the
\* column before it, so that the tank stands level.
C27_Original ==
    /\ []((Generating /\ TheProbe.returned) =>
             TheProbe.tank_positions = TheProbe.tank_x_positions)
    /\ [][(Generating /\ Generating' /\ TheProbe'.x = TheProbe.x + 1) =>
             \A i \in 1 .. Len(TheProbe.tank_x_positions) :
                UnderTank(TheProbe', TheProbe.tank_x_positions[i]) =>
                    TheProbe'.terrain_top = TheProbe.prev_height]_vars

(***************************************************************************)
(* Properties of the kills and the shots                                   *)
(***************************************************************************)
\* C28: every player's kills are at most the player's shots at all times; a
\* fire adds one to the shots of the current player and changes no other
\* count; a tick removes at most one player and raises the kills of nobody
\* but the firer, by at most one; so the score of a victory, kills / shots,
\* lies between 0 and 1, and is 0 when the winner fired no shot.
C28_KillsAtMostShots ==
    /\ [](/\ \A p \in PlayerIds : 0 <= kills[p] /\ kills[p] <= shots[p]
          /\ victory # {} =>
                /\ 0 <= get_score(The(victory)).n
                /\ get_score(The(victory)).n <= get_score(The(victory)).d
                /\ The(victory).shots = 0 => get_score(The(victory)).n = 0
          /\ check.collided =>
                /\ Len(check.after.players) >= Len(check.before.players) - 1
                /\ \A q \in PlayerIds :
                      /\ check.after.shots[q] <= check.before.shots[q]
                      /\ check.after.kills[q] <=
                            check.before.kills[q]
                               + (IF q \in check.firer THEN 1 ELSE 0))
    /\ [][fired' = fired + 1 =>
            /\ kills' = kills
            /\ shots' = [shots EXCEPT ![c_player(G)] = @ + 1]]_vars

\* the second player of a match of two has won without firing: the first
\* player hit the own tank with the first shell
C28_Witness ==
    /\ screen = "victory" /\ fired = 1
    /\ victory = {[player_count |-> 2, player |-> 2, kills |-> 0, shots |-> 0]}
    /\ check.player = check.firer

(***************************************************************************)
(* Properties of get_topology                                              *)
(***************************************************************************)
\* C30: in the list of the feature types get_topology has chosen for a map,
\* at any point of the call, no type stands three times in a row.
C30_NoTripleFeature ==
    (probe # {} /\ TheProbe.op = "get_topology") =>
        \A k \in 1 .. (Len(TheProbe.types) - 2) :
            ~(/\ TheProbe.types[k] = TheProbe.types[k + 1]
              /\ TheProbe.types[k + 1] = TheProbe.types[k + 2])

\* a map of five features: two valleys, two hills and a valley
C30_Witness ==
    /\ probe # {} /\ TheProbe.op = "get_topology"
    /\ TheProbe.num_features = 5 /\ TheProbe.i = 5
    /\ TheProbe.types = << 0, 0, 1, 1, 0 >>

(***************************************************************************)
(* Properties of the flight                                                *)
(***************************************************************************)
InFlight == probe # {} /\ TheProbe.op = "flight" /\ TheProbe.flying
Landed == probe # {} /\ TheProbe.op = "flight" /\ ~TheProbe.flying

\* C29: with gravity > 0 every shell that is fired leaves the flight after
\* finitely many update ticks; bounces off the walls and the ceiling cannot
\* keep it in flight for ever.
C29_Original == InFlight ~> Landed

====
